---- MODULE Spec2Model ----
(***************************************************************************)
(* A model of the OFD wire-protocol codec of yandex/ofd:                   *)
(*   ofd/protocol.py      scalar codecs, STLV.unpack, the tag registry     *)
(*                        DOCUMENTS with its inverse indices, pack_json    *)
(*                                                                         *)
(* The codec is a set of pure functions.  Each is an operator computed the *)
(* way the Python code computes it; a call that raises is a result record  *)
(* with ok = FALSE that carries the exception type.  The state machine is  *)
(* a caller: it picks an operation and its arguments (pc = "idle"), runs   *)
(* it, for the encoders feeds the bytes produced to the decoder, and       *)
(* returns.                                                                *)
(*                                                                         *)
(* Python values are records [t, v]:                                       *)
(*   int    v = the number as little-endian base-256 digits with no        *)
(*              trailing zero digit (Python ints are unbounded, the        *)
(*              model checker's are 32 bits wide); Num(n) writes one       *)
(*   str    v = the sequence of Unicode code points                        *)
(*   bytes  v = the sequence of bytes, each in 0..255                      *)
(*   dict   v = the sequence of entries [k, v] in insertion order          *)
(*   list   v = the sequence of elements                                   *)
(*   float  v = <<pos, num>>, the decimal num * 10^-pos                    *)
(* Descriptions of the registry are Cyrillic in the source and are written *)
(* here letter by letter in Latin (distinct descriptions stay distinct).   *)
(***************************************************************************)
EXTENDS Integers, Sequences, FiniteSets, TLC

VARIABLES pc, op, obj, index, arg, wire, out

vars == <<pc, op, obj, index, arg, wire, out>>

(***************************************************************************)
(* Results of a call                                                       *)
(***************************************************************************)
\* A call that returned val.
Ok(val) == [ok |-> TRUE, val |-> val, err |-> "", info |-> 0]

\* A call that raised the exception err; info is the exception's argument
\* where the model uses it (the key of a KeyError).
Raise(err, info) == [ok |-> FALSE, val |-> <<>>, err |-> err, info |-> info]

\* No call was made.
NoResult == [ok |-> FALSE, val |-> <<>>, err |-> "not called", info |-> 0]

(***************************************************************************)
(* Python values                                                           *)
(***************************************************************************)
PyInt(digits) == [t |-> "int", v |-> digits]
PyStr(chars) == [t |-> "str", v |-> chars]
PyBytes(bytes) == [t |-> "bytes", v |-> bytes]
PyDict(entries) == [t |-> "dict", v |-> entries]
PyList(elems) == [t |-> "list", v |-> elems]
PyFloat(pos, num) == [t |-> "float", v |-> <<pos, num>>]

Max(S) == CHOOSE x \in S : \A y \in S : y <= x

RECURSIVE StripZeros(_)
\* The canonical digits of a little-endian digit string: trailing zero
\* digits dropped.
StripZeros(b) ==
  IF Len(b) > 0 /\ b[Len(b)] = 0 THEN StripZeros(SubSeq(b, 1, Len(b) - 1)) ELSE b

RECURSIVE Digits(_)
\* The little-endian base-256 digits of a small natural number.
Digits(n) == IF n = 0 THEN <<>> ELSE <<n % 256>> \o Digits(n \div 256)

RECURSIVE DivTen(_, _)
\* The quotient by ten of an int given by its digits: long division from the
\* most significant digit, carry the remainder so far.
DivTen(digits, carry) ==
  IF digits = <<>> THEN <<>>
  ELSE LET last == Len(digits)
           cur == carry * 256 + digits[last]
       IN DivTen(SubSeq(digits, 1, last - 1), cur % 10) \o <<cur \div 10>>

RECURSIVE FloorShift(_, _)
\* The digits of floor(num / 10 ^ pos) for pos >= 0.
FloorShift(num, pos) ==
  IF pos <= 0 THEN num ELSE FloorShift(StripZeros(DivTen(num, 0)), pos - 1)

\* The Python int n.
Num(n) == PyInt(Digits(n))

RECURSIVE Zeros(_)
\* b'\x00' * n (empty for n <= 0).
Zeros(n) == IF n <= 0 THEN <<>> ELSE <<0>> \o Zeros(n - 1)

\* data[a:b] of Python, 0-based, b clamped to the length.
Slice(data, a, b) ==
  SubSeq(data, a + 1, IF b < Len(data) THEN b ELSE Len(data))

\* data[a:] of Python.
SliceFrom(data, a) == SubSeq(data, a + 1, Len(data))

RECURSIVE PyEq(_, _)
\* == of Python on the values of the model: values of different types are
\* unequal, dicts compare by key whatever the insertion order, lists and
\* strings element by element.
PyEq(a, b) ==
  IF a.t # b.t THEN FALSE
  ELSE IF a.t = "dict"
    THEN /\ Len(a.v) = Len(b.v)
         /\ \A i \in 1..Len(a.v) :
              \E j \in 1..Len(b.v) :
                 b.v[j].k = a.v[i].k /\ PyEq(a.v[i].v, b.v[j].v)
  ELSE IF a.t = "list"
    THEN /\ Len(a.v) = Len(b.v)
         /\ \A i \in 1..Len(a.v) : PyEq(a.v[i], b.v[i])
  ELSE a.v = b.v

(***************************************************************************)
(* struct: the fixed-width little-endian fields the codec uses             *)
(***************************************************************************)
\* struct.pack('<H', n) for 0 <= n <= 65535.
PackU16(n) == <<n % 256, n \div 256>>

\* struct.unpack('<H', b) of two bytes.
UnpackU16(b) == b[1] + 256 * b[2]

\* struct.pack('<HH', ty, length): struct.error outside 0..65535.
PackHH(ty, length) ==
  IF ty \in 0..65535 /\ length \in 0..65535
    THEN Ok(PackU16(ty) \o PackU16(length))
    ELSE Raise("struct.error", 0)

(***************************************************************************)
(* CP866, the code page of str.encode('cp866') and bytes.decode('cp866'):  *)
(* entry b + 1 is the code point of byte b.                                *)
(***************************************************************************)
CP866_DECODING_TABLE == <<
  0, 1, 2, 3, 4, 5, 6, 7, 8, 9, 10, 11, 12, 13, 14, 15,
  16, 17, 18, 19, 20, 21, 22, 23, 24, 25, 26, 27, 28, 29, 30, 31,
  32, 33, 34, 35, 36, 37, 38, 39, 40, 41, 42, 43, 44, 45, 46, 47,
  48, 49, 50, 51, 52, 53, 54, 55, 56, 57, 58, 59, 60, 61, 62, 63,
  64, 65, 66, 67, 68, 69, 70, 71, 72, 73, 74, 75, 76, 77, 78, 79,
  80, 81, 82, 83, 84, 85, 86, 87, 88, 89, 90, 91, 92, 93, 94, 95,
  96, 97, 98, 99, 100, 101, 102, 103, 104, 105, 106, 107, 108, 109, 110, 111,
  112, 113, 114, 115, 116, 117, 118, 119, 120, 121, 122, 123, 124, 125, 126, 127,
  1040, 1041, 1042, 1043, 1044, 1045, 1046, 1047, 1048, 1049, 1050, 1051, 1052, 1053, 1054, 1055,
  1056, 1057, 1058, 1059, 1060, 1061, 1062, 1063, 1064, 1065, 1066, 1067, 1068, 1069, 1070, 1071,
  1072, 1073, 1074, 1075, 1076, 1077, 1078, 1079, 1080, 1081, 1082, 1083, 1084, 1085, 1086, 1087,
  9617, 9618, 9619, 9474, 9508, 9569, 9570, 9558, 9557, 9571, 9553, 9559, 9565, 9564, 9563, 9488,
  9492, 9524, 9516, 9500, 9472, 9532, 9566, 9567, 9562, 9556, 9577, 9574, 9568, 9552, 9580, 9575,
  9576, 9572, 9573, 9561, 9560, 9554, 9555, 9579, 9578, 9496, 9484, 9608, 9604, 9612, 9616, 9600,
  1088, 1089, 1090, 1091, 1092, 1093, 1094, 1095, 1096, 1097, 1098, 1099, 1100, 1101, 1102, 1103,
  1025, 1105, 1028, 1108, 1031, 1111, 1038, 1118, 176, 8729, 183, 8730, 8470, 164, 9632, 160
>>

\* bytes.decode('cp866'): every byte has a character.
Cp866Decode(bytes) == [i \in 1..Len(bytes) |-> CP866_DECODING_TABLE[bytes[i] + 1]]

\* Whether the code point has a byte in CP866.
Cp866Encodable(ch) == \E b \in 0..255 : CP866_DECODING_TABLE[b + 1] = ch

\* The byte of an encodable code point.
Cp866Byte(ch) == CHOOSE b \in 0..255 : CP866_DECODING_TABLE[b + 1] = ch

\* str.encode('cp866'): UnicodeEncodeError on a character outside the page.
Cp866Encode(chars) ==
  IF \A i \in 1..Len(chars) : Cp866Encodable(chars[i])
    THEN Ok([i \in 1..Len(chars) |-> Cp866Byte(chars[i])])
    ELSE Raise("UnicodeEncodeError", 0)

(***************************************************************************)
(* The tag registry DOCUMENTS, one record per entry of the dict literal in *)
(* the order of the source.  kind is the codec class; maxlen is what the   *)
(* constructor stores (Byte: STRUCT.size, U32 and UnixTime: 4, VLN: 8 by   *)
(* default); cardinality is the attribute, "None" where the constructor    *)
(* stores None and "absent" where the class has no such attribute.         *)
(***************************************************************************)
DOCUMENTS_ITEMS == <<
  [ty |-> 1, kind |-> "STLV", name |-> "fiscalReport", desc |-> "Otche:t o fiskalizatsii", maxlen |-> 658, cardinality |-> "1"],
  [ty |-> 11, kind |-> "STLV", name |-> "fiscalReportCorrection", desc |-> "Otchyot ob izmenenii parametrov registratsii", maxlen |-> 658, cardinality |-> "1"],
  [ty |-> 2, kind |-> "STLV", name |-> "openShift", desc |-> "Otchyot ob otkrytii smeny", maxlen |-> 440, cardinality |-> "1"],
  [ty |-> 21, kind |-> "STLV", name |-> "currentStateReport", desc |-> "Otchyot o tekuschem sostoyanii raschetov", maxlen |-> 32768, cardinality |-> "1"],
  [ty |-> 3, kind |-> "STLV", name |-> "receipt", desc |-> "Kassovyi^6 chek", maxlen |-> 32768, cardinality |-> "1"],
  [ty |-> 31, kind |-> "STLV", name |-> "receiptCorrection", desc |-> "Kassovyj chek korrektsii", maxlen |-> 32768, cardinality |-> "1"],
  [ty |-> 4, kind |-> "STLV", name |-> "bso", desc |-> "Blank strogoj otchetnosti", maxlen |-> 32768, cardinality |-> "1"],
  [ty |-> 41, kind |-> "STLV", name |-> "bsoCorrection", desc |-> "Blank strogoj otchetnosti korrektsii", maxlen |-> 32768, cardinality |-> "1"],
  [ty |-> 5, kind |-> "STLV", name |-> "closeShift", desc |-> "Otchyot o zakrytii smeny", maxlen |-> 441, cardinality |-> "1"],
  [ty |-> 6, kind |-> "STLV", name |-> "closeArchive", desc |-> "Otchyot o zakrytii fiskal'nogo nakopitelya", maxlen |-> 432, cardinality |-> "1"],
  [ty |-> 7, kind |-> "STLV", name |-> "operatorAck(?)", desc |-> "podtverzhdenie operatora", maxlen |-> 512, cardinality |-> "1"],
  [ty |-> 1001, kind |-> "Byte", name |-> "autoMode", desc |-> "avtomaticheskii^6 rezhim", maxlen |-> 1, cardinality |-> "None"],
  [ty |-> 1002, kind |-> "Byte", name |-> "offlineMode", desc |-> "avtonomnyi^6 rezhim", maxlen |-> 1, cardinality |-> "None"],
  [ty |-> 1003, kind |-> "String", name |-> "<unknown-1003>", desc |-> "adres bankovskogo agenta", maxlen |-> 256, cardinality |-> "absent"],
  [ty |-> 1004, kind |-> "String", name |-> "<unknown-1004>", desc |-> "adres bankovskogo subagenta", maxlen |-> 256, cardinality |-> "absent"],
  [ty |-> 1005, kind |-> "String", name |-> "operatorAddress", desc |-> "adres operatora po perevodu denezhnyh sredstv", maxlen |-> 256, cardinality |-> "absent"],
  [ty |-> 1006, kind |-> "String", name |-> "<unknown-1006>", desc |-> "adres platezhnogo agenta", maxlen |-> 256, cardinality |-> "absent"],
  [ty |-> 1007, kind |-> "String", name |-> "<unknown-1007>", desc |-> "adres platezhnogo subagenta", maxlen |-> 256, cardinality |-> "absent"],
  [ty |-> 1008, kind |-> "String", name |-> "buyerAddress", desc |-> "adres pokupatelya", maxlen |-> 64, cardinality |-> "absent"],
  [ty |-> 1009, kind |-> "String", name |-> "retailPlaceAddress", desc |-> "adres (mesto) raschetov", maxlen |-> 256, cardinality |-> "absent"],
  [ty |-> 1010, kind |-> "VLN", name |-> "bankAgentRemuneration", desc |-> "Razmer voznagrazhdeniya bankovskogo agenta (subagenta)", maxlen |-> 8, cardinality |-> "absent"],
  [ty |-> 1011, kind |-> "VLN", name |-> "paymentAgentRemuneration", desc |-> "Razmer voznagrazhdeniya platezhnogo agenta (subagenta)", maxlen |-> 8, cardinality |-> "absent"],
  [ty |-> 1012, kind |-> "UnixTime", name |-> "dateTime", desc |-> "data, vremya", maxlen |-> 4, cardinality |-> "absent"],
  [ty |-> 1013, kind |-> "String", name |-> "kktNumber", desc |-> "Zavodskoi^6 nomer KKT", maxlen |-> 20, cardinality |-> "absent"],
  [ty |-> 1014, kind |-> "String", name |-> "<unknown-1014>", desc |-> "znachenie tipa stroka", maxlen |-> 64, cardinality |-> "absent"],
  [ty |-> 1015, kind |-> "U32", name |-> "<unknown-1015>", desc |-> "znachenie tipa tseloe", maxlen |-> 4, cardinality |-> "absent"],
  [ty |-> 1016, kind |-> "String", name |-> "operatorInn", desc |-> "INN operatora po perevodu denezhnyh sredstv", maxlen |-> 12, cardinality |-> "absent"],
  [ty |-> 1017, kind |-> "String", name |-> "ofdInn", desc |-> "INN OFD", maxlen |-> 12, cardinality |-> "absent"],
  [ty |-> 1018, kind |-> "String", name |-> "userInn", desc |-> "INN pol'zovatelya", maxlen |-> 12, cardinality |-> "absent"],
  [ty |-> 1019, kind |-> "String", name |-> "<unknown-1019>", desc |-> "Informatsionnoe coobschenie", maxlen |-> 64, cardinality |-> "absent"],
  [ty |-> 1020, kind |-> "VLN", name |-> "totalSum", desc |-> "ITOG", maxlen |-> 8, cardinality |-> "absent"],
  [ty |-> 1021, kind |-> "String", name |-> "operator", desc |-> "Kassir", maxlen |-> 64, cardinality |-> "absent"],
  [ty |-> 1022, kind |-> "Byte", name |-> "<unknown-1022>", desc |-> "kod otveta OFD", maxlen |-> 1, cardinality |-> "None"],
  [ty |-> 1023, kind |-> "FVLN", name |-> "quantity", desc |-> "Kolichestvo", maxlen |-> 8, cardinality |-> "absent"],
  [ty |-> 1024, kind |-> "String", name |-> "<unknown-1024>", desc |-> "Naimenovanie bankovskogo agenta", maxlen |-> 64, cardinality |-> "absent"],
  [ty |-> 1025, kind |-> "String", name |-> "<unknown-1025>", desc |-> "Naimenovanie bankovskogo subagenta", maxlen |-> 64, cardinality |-> "absent"],
  [ty |-> 1026, kind |-> "String", name |-> "operatorName", desc |-> "Naimenovanie operatora po perevodu denezhnyh sredstv", maxlen |-> 64, cardinality |-> "absent"],
  [ty |-> 1027, kind |-> "String", name |-> "<unknown-1027>", desc |-> "Naimenovanie platezhnogo agenta", maxlen |-> 64, cardinality |-> "absent"],
  [ty |-> 1028, kind |-> "String", name |-> "<unknown-1028>", desc |-> "Naimenovanie platezhnogo subagenta", maxlen |-> 64, cardinality |-> "absent"],
  [ty |-> 1029, kind |-> "String", name |-> "<unknown-1029>", desc |-> "naimenovanie rekvizita", maxlen |-> 64, cardinality |-> "absent"],
  [ty |-> 1030, kind |-> "String", name |-> "name", desc |-> "Naimenovanie tovara", maxlen |-> 64, cardinality |-> "absent"],
  [ty |-> 1031, kind |-> "VLN", name |-> "cashTotalSum", desc |-> "Nalichnymi", maxlen |-> 8, cardinality |-> "absent"],
  [ty |-> 1032, kind |-> "STLV", name |-> "<unknown-1032>", desc |-> "Nalog", maxlen |-> 33, cardinality |-> "1"],
  [ty |-> 1033, kind |-> "STLV", name |-> "<unknown-1033>", desc |-> "Nalogi", maxlen |-> 33, cardinality |-> "1"],
  [ty |-> 1034, kind |-> "FVLN", name |-> "markup", desc |-> "Natsenka (stavka)", maxlen |-> 8, cardinality |-> "absent"],
  [ty |-> 1035, kind |-> "VLN", name |-> "markupSum", desc |-> "Natsenka (summa)", maxlen |-> 8, cardinality |-> "absent"],
  [ty |-> 1036, kind |-> "String", name |-> "machineNumber", desc |-> "Nomer avtomata", maxlen |-> 12, cardinality |-> "absent"],
  [ty |-> 1037, kind |-> "String", name |-> "kktRegId", desc |-> "Nomer KKT", maxlen |-> 20, cardinality |-> "absent"],
  [ty |-> 1038, kind |-> "U32", name |-> "shiftNumber", desc |-> "Nomer smeny", maxlen |-> 4, cardinality |-> "absent"],
  [ty |-> 1039, kind |-> "String", name |-> "<unknown-1039>", desc |-> "Zarezervirovan", maxlen |-> 12, cardinality |-> "absent"],
  [ty |-> 1040, kind |-> "U32", name |-> "fiscalDocumentNumber", desc |-> "nomer fiskal'nogo dokumenta", maxlen |-> 4, cardinality |-> "absent"],
  [ty |-> 1041, kind |-> "String", name |-> "fiscalDriveNumber", desc |-> "zavodskoj nomer fiskal'nogo nakopitelya", maxlen |-> 16, cardinality |-> "absent"],
  [ty |-> 1042, kind |-> "U32", name |-> "requestNumber", desc |-> "nomer cheka za smenu", maxlen |-> 4, cardinality |-> "absent"],
  [ty |-> 1043, kind |-> "VLN", name |-> "sum", desc |-> "Obschaya stoimost' pozitsii s uchetom skidok i natsenok", maxlen |-> 8, cardinality |-> "absent"],
  [ty |-> 1044, kind |-> "String", name |-> "bankAgentOperation", desc |-> "Operatsiya bankovskogo agenta", maxlen |-> 24, cardinality |-> "absent"],
  [ty |-> 1045, kind |-> "String", name |-> "bankSubagentOperation", desc |-> "operatsiya bankovskogo subagenta", maxlen |-> 24, cardinality |-> "absent"],
  [ty |-> 1046, kind |-> "String", name |-> "<unknown-1046>", desc |-> "OFD", maxlen |-> 64, cardinality |-> "absent"],
  [ty |-> 1047, kind |-> "STLV", name |-> "<unknown-1047>", desc |-> "parametr nastrojki", maxlen |-> 144, cardinality |-> "1"],
  [ty |-> 1048, kind |-> "String", name |-> "user", desc |-> "naimenovanie pol'zovatelya", maxlen |-> 256, cardinality |-> "absent"],
  [ty |-> 1049, kind |-> "String", name |-> "<unknown-1049>", desc |-> "Pochtovyi^6 indeks", maxlen |-> 6, cardinality |-> "absent"],
  [ty |-> 1050, kind |-> "Byte", name |-> "fiscalDriveExhaustionSign", desc |-> "Priznak ischerpaniya resursa FN", maxlen |-> 1, cardinality |-> "None"],
  [ty |-> 1051, kind |-> "Byte", name |-> "fiscalDriveReplaceRequiredSign", desc |-> "Priznak neobhodimosti srochnoi^6 zameny FN", maxlen |-> 1, cardinality |-> "None"],
  [ty |-> 1052, kind |-> "Byte", name |-> "fiscalDriveMemoryExceededSign", desc |-> "Priznak perepolneniya pamyati FN", maxlen |-> 1, cardinality |-> "None"],
  [ty |-> 1053, kind |-> "Byte", name |-> "ofdResponseTimeoutSign", desc |-> "Priznak prevysheniya vremeni ozhidaniya otveta OFD", maxlen |-> 1, cardinality |-> "None"],
  [ty |-> 1054, kind |-> "Byte", name |-> "operationType", desc |-> "Priznak rascheta", maxlen |-> 1, cardinality |-> "None"],
  [ty |-> 1055, kind |-> "Byte", name |-> "taxationType", desc |-> "primenyaemaya sistema nalogooblozheniya", maxlen |-> 1, cardinality |-> "None"],
  [ty |-> 1056, kind |-> "Byte", name |-> "encryptionSign", desc |-> "Priznak shifrovaniya", maxlen |-> 1, cardinality |-> "None"],
  [ty |-> 1057, kind |-> "Byte", name |-> "<unknown-1057>", desc |-> "Primenenie platezhnymi agentami (subagentami)", maxlen |-> 1, cardinality |-> "None"],
  [ty |-> 1058, kind |-> "Byte", name |-> "<unknown-1058>", desc |-> "Primenenie bankovskimi agentami (subagentami)", maxlen |-> 1, cardinality |-> "None"],
  [ty |-> 1059, kind |-> "STLV", name |-> "items", desc |-> "naimenovanie tovara (rekvizity)", maxlen |-> 328, cardinality |-> "*"],
  [ty |-> 1060, kind |-> "String", name |-> "<unknown-1060>", desc |-> "Sai^6t nalogovogo organa", maxlen |-> 64, cardinality |-> "absent"],
  [ty |-> 1061, kind |-> "String", name |-> "<unknown-1061>", desc |-> "Sai^6t OFD", maxlen |-> 64, cardinality |-> "absent"],
  [ty |-> 1062, kind |-> "Byte", name |-> "taxationType-2", desc |-> "sistemy nalogooblozheniya", maxlen |-> 1, cardinality |-> "None"],
  [ty |-> 1063, kind |-> "FVLN", name |-> "discount", desc |-> "Skidka (stavka)", maxlen |-> 8, cardinality |-> "absent"],
  [ty |-> 1064, kind |-> "VLN", name |-> "discountSum", desc |-> "Skidka (summa)", maxlen |-> 8, cardinality |-> "absent"],
  [ty |-> 1065, kind |-> "String", name |-> "<unknown-1065>", desc |-> "Sokraschennoe naimenovanie naloga", maxlen |-> 10, cardinality |-> "absent"],
  [ty |-> 1066, kind |-> "String", name |-> "message", desc |-> "Soobschenie", maxlen |-> 256, cardinality |-> "absent"],
  [ty |-> 1067, kind |-> "STLV", name |-> "<unknown-1067>", desc |-> "Soobschenie operatora dlya KKT", maxlen |-> 216, cardinality |-> "1"],
  [ty |-> 1068, kind |-> "STLV", name |-> "<unknown-1068>", desc |-> "soobschenie operatora dlya FN", maxlen |-> 169, cardinality |-> "1"],
  [ty |-> 1069, kind |-> "STLV", name |-> "message", desc |-> "Soobschenie operatoru", maxlen |-> 328, cardinality |-> "*"],
  [ty |-> 1070, kind |-> "FVLN", name |-> "<unknown-1070>", desc |-> "Stavka naloga", maxlen |-> 5, cardinality |-> "absent"],
  [ty |-> 1071, kind |-> "STLV", name |-> "stornoItems", desc |-> "storno tovara (rekvizity)", maxlen |-> 328, cardinality |-> "*"],
  [ty |-> 1072, kind |-> "VLN", name |-> "<unknown-1072>", desc |-> "Summa naloga", maxlen |-> 8, cardinality |-> "absent"],
  [ty |-> 1073, kind |-> "String", name |-> "bankAgentPhone", desc |-> "Telefon bankovskogo agenta", maxlen |-> 19, cardinality |-> "absent"],
  [ty |-> 1074, kind |-> "String", name |-> "paymentAgentPhone", desc |-> "Telefon platezhnogo agenta", maxlen |-> 19, cardinality |-> "absent"],
  [ty |-> 1075, kind |-> "String", name |-> "operatorPhone", desc |-> "Telefon operatora po perevodu denezhnyh sredstv", maxlen |-> 19, cardinality |-> "absent"],
  [ty |-> 1076, kind |-> "String", name |-> "type", desc |-> "Tip soobscheniya", maxlen |-> 64, cardinality |-> "absent"],
  [ty |-> 1077, kind |-> "VLN", name |-> "fiscalSign", desc |-> "fiskal'nyj priznak dokumenta", maxlen |-> 6, cardinality |-> "absent"],
  [ty |-> 1078, kind |-> "ByteArray", name |-> "<unknown-1078>", desc |-> "fiskal'nyj priznak operatora", maxlen |-> 8, cardinality |-> "absent"],
  [ty |-> 1079, kind |-> "VLN", name |-> "price", desc |-> "Tsena za edinitsu", maxlen |-> 8, cardinality |-> "absent"],
  [ty |-> 1080, kind |-> "String", name |-> "barcode", desc |-> "Shtrihovoi^6 kod EAN13", maxlen |-> 16, cardinality |-> "absent"],
  [ty |-> 1081, kind |-> "VLN", name |-> "ecashTotalSum", desc |-> "forma rascheta -- elektronnymi", maxlen |-> 8, cardinality |-> "absent"],
  [ty |-> 1082, kind |-> "String", name |-> "bankSubagentPhone", desc |-> "telefon bankovskogo subagenta", maxlen |-> 19, cardinality |-> "absent"],
  [ty |-> 1083, kind |-> "String", name |-> "paymentSubagentPhone", desc |-> "telefon platezhnogo subagenta", maxlen |-> 19, cardinality |-> "absent"],
  [ty |-> 1084, kind |-> "STLV", name |-> "properties", desc |-> "dopolnitel'nyj rekvizit", maxlen |-> 328, cardinality |-> "*"],
  [ty |-> 1085, kind |-> "String", name |-> "key", desc |-> "naimenovanie dopolnitel'nogo rekvizita", maxlen |-> 64, cardinality |-> "absent"],
  [ty |-> 1086, kind |-> "String", name |-> "value", desc |-> "znachenie dopolnitel'nogo rekvizita", maxlen |-> 256, cardinality |-> "absent"],
  [ty |-> 1097, kind |-> "U32", name |-> "notTransmittedDocumentsQuantity", desc |-> "kolichestvo neperedannyh dokumentov FD", maxlen |-> 4, cardinality |-> "absent"],
  [ty |-> 1098, kind |-> "UnixTime", name |-> "notTransmittedDocumentsDateTime", desc |-> "data i vremya pervogo iz neperedannyh FD", maxlen |-> 4, cardinality |-> "absent"],
  [ty |-> 1102, kind |-> "VLN", name |-> "nds18", desc |-> "NDS itoga cheka so stavkoj 18%", maxlen |-> 8, cardinality |-> "absent"],
  [ty |-> 1103, kind |-> "VLN", name |-> "nds10", desc |-> "NDS itoga cheka so stavkoj 10%", maxlen |-> 8, cardinality |-> "absent"],
  [ty |-> 1104, kind |-> "VLN", name |-> "nds0", desc |-> "NDS itoga cheka so stavkoj 0%", maxlen |-> 8, cardinality |-> "absent"],
  [ty |-> 1105, kind |-> "VLN", name |-> "ndsNo", desc |-> "NDS ne oblagaetsya", maxlen |-> 8, cardinality |-> "absent"],
  [ty |-> 1106, kind |-> "VLN", name |-> "ndsCalculated18", desc |-> "NDS itoga cheka s rasschitannoj stavkoj 18%", maxlen |-> 8, cardinality |-> "absent"],
  [ty |-> 1107, kind |-> "VLN", name |-> "ndsCalculated10", desc |-> "NDS itoga cheka s rasschitannoj stavkoj 10%", maxlen |-> 8, cardinality |-> "absent"],
  [ty |-> 1108, kind |-> "Byte", name |-> "internetSign", desc |-> "priznak raschetov v seti Internet", maxlen |-> 1, cardinality |-> "None"],
  [ty |-> 1109, kind |-> "Byte", name |-> "serviceSign", desc |-> "priznak raboty v sfere uslug", maxlen |-> 1, cardinality |-> "None"],
  [ty |-> 1110, kind |-> "Byte", name |-> "bsoSign", desc |-> "primenyaetsya dlya formirovaniya BSO", maxlen |-> 1, cardinality |-> "None"],
  [ty |-> 1111, kind |-> "U32", name |-> "documentsQuantity", desc |-> "kolichestvo fiskal'nyh dokumentov za smenu", maxlen |-> 4, cardinality |-> "absent"],
  [ty |-> 1112, kind |-> "STLV", name |-> "modifiers", desc |-> "skidka/natsenka", maxlen |-> 160, cardinality |-> "*"],
  [ty |-> 1113, kind |-> "String", name |-> "discountName", desc |-> "naimenovanie skidki", maxlen |-> 64, cardinality |-> "absent"],
  [ty |-> 1114, kind |-> "String", name |-> "markupName", desc |-> "naimenovanie natsenki", maxlen |-> 64, cardinality |-> "absent"],
  [ty |-> 1115, kind |-> "String", name |-> "addressToCheckFiscalSign", desc |-> "adres sajta dlya proverki FP", maxlen |-> 256, cardinality |-> "absent"],
  [ty |-> 1116, kind |-> "U32", name |-> "notTransmittedDocumentNumber", desc |-> "nomer pervogo neperedannogo dokumenta", maxlen |-> 4, cardinality |-> "absent"],
  [ty |-> 1117, kind |-> "String", name |-> "senderAddress", desc |-> "adres otpravitelya", maxlen |-> 64, cardinality |-> "absent"],
  [ty |-> 1118, kind |-> "U32", name |-> "receiptsQuantity", desc |-> "kolichestvo kassovyh chekov za smenu", maxlen |-> 4, cardinality |-> "absent"],
  [ty |-> 1119, kind |-> "String", name |-> "operatorPhoneToReceive", desc |-> "telefon operatora po priemu platezhej", maxlen |-> 19, cardinality |-> "absent"]
>>

\* The tags of the registry.
DOCUMENTS_KEYS == {DOCUMENTS_ITEMS[i].ty : i \in 1..Len(DOCUMENTS_ITEMS)}

\* The registry entry of a tag of the registry.
DOCUMENTS(ty) ==
  DOCUMENTS_ITEMS[CHOOSE i \in 1..Len(DOCUMENTS_ITEMS) : DOCUMENTS_ITEMS[i].ty = ty]

\* A lookup that answers a tag outside the registry with an opaque entry,
\* as DOCUMENTS.get(ty, ByteArray(...)) would.
DOCUMENTS_get_default(ty) ==
  IF ty \in DOCUMENTS_KEYS
    THEN Ok(DOCUMENTS(ty))
    ELSE Ok([ty |-> ty, kind |-> "ByteArray", name |-> "<unknown>", desc |-> "",
             maxlen |-> 65535, cardinality |-> "absent"])

\* DOCUMENTS[ty] as STLV.unpack evaluates it: a dict lookup, KeyError(ty)
\* for a tag outside the registry.
DOCUMENTS_getitem(ty) ==
  IF ty \in DOCUMENTS_KEYS THEN Ok(DOCUMENTS(ty)) ELSE Raise("KeyError", ty)

\* The keys of DOCS_BY_NAME: dict((doc.name, (ty, doc)) for ...).
DOCS_BY_NAME_KEYS == {DOCUMENTS_ITEMS[i].name : i \in 1..Len(DOCUMENTS_ITEMS)}

\* DOCS_BY_NAME[name]: dict() keeps the last pair of a repeated key.
DOCS_BY_NAME(name) ==
  DOCUMENTS_ITEMS[Max({i \in 1..Len(DOCUMENTS_ITEMS) : DOCUMENTS_ITEMS[i].name = name})]

\* The keys of DOCS_BY_DESC.
DOCS_BY_DESC_KEYS == {DOCUMENTS_ITEMS[i].desc : i \in 1..Len(DOCUMENTS_ITEMS)}

\* DOCS_BY_DESC[desc].
DOCS_BY_DESC(desc) ==
  DOCUMENTS_ITEMS[Max({i \in 1..Len(DOCUMENTS_ITEMS) : DOCUMENTS_ITEMS[i].desc = desc})]

\* docs[name] of pack_json for docs one of the two indices ("name", "desc"):
\* the pair (ty, cls) as the registry record, KeyError on a missing key.
DocsLookup(docs, name) ==
  IF docs = "name"
    THEN IF name \in DOCS_BY_NAME_KEYS THEN Ok(DOCS_BY_NAME(name)) ELSE Raise("KeyError", name)
    ELSE IF name \in DOCS_BY_DESC_KEYS THEN Ok(DOCS_BY_DESC(name)) ELSE Raise("KeyError", name)

\* The key under which an index holds a registry entry.
KeyIn(docs, doc) == IF docs = "name" THEN doc.name ELSE doc.desc

(***************************************************************************)
(* Scalar codecs.  self is the codec object (kind, maxlen, ...), data the  *)
(* bytes to decode, value the Python value to encode.                      *)
(***************************************************************************)
\* Byte.pack: struct.Struct('B').pack(data).
Byte_pack(data) ==
  IF data.t = "int" /\ Len(data.v) <= 1
    THEN Ok(data.v \o Zeros(1 - Len(data.v)))
    ELSE Raise("struct.error", 0)

\* Byte.unpack: struct.Struct('B').unpack(data)[0].
Byte_unpack(data) ==
  IF Len(data) = 1 THEN Ok(PyInt(StripZeros(data))) ELSE Raise("struct.error", 0)

\* U32.pack: struct.pack('<I', data).
U32_pack(data) ==
  IF data.t = "int" /\ Len(data.v) <= 4
    THEN Ok(data.v \o Zeros(4 - Len(data.v)))
    ELSE Raise("struct.error", 0)

\* U32.unpack: struct.unpack('<I', data)[0].
U32_unpack(data) ==
  IF Len(data) = 4 THEN Ok(PyInt(StripZeros(data))) ELSE Raise("struct.error", 0)

\* String.pack: struct.pack('{}s'.format(len(value)), value.encode('cp866')).
\* len(value) is evaluated first (TypeError for an int); bytes have no
\* encode.  CP866 is one byte per character, so the 's' field has the size
\* of the encoded text.  maxlen is not consulted.
String_pack(value) ==
  IF value.t = "str" THEN Cp866Encode(value.v)
  ELSE IF value.t = "bytes" THEN Raise("AttributeError", 0)
  ELSE Raise("TypeError", 0)

\* String.unpack without the comparison against maxlen.
String_unpack_unbounded(self, data) ==
  IF Len(data) = 0 THEN Ok(PyStr(<<>>)) ELSE Ok(PyStr(Cp866Decode(data)))

\* String.unpack.
String_unpack(self, data) ==
  IF Len(data) = 0 THEN Ok(PyStr(<<>>))
  ELSE IF Len(data) > self.maxlen THEN Raise("ValueError", 0)
  ELSE Ok(PyStr(Cp866Decode(data)))

\* ByteArray.pack: struct.pack('{}s'.format(len(value)), value); the 's'
\* field takes bytes only.  maxlen is not consulted.
ByteArray_pack(value) ==
  IF value.t = "bytes" THEN Ok(value.v)
  ELSE IF value.t = "str" THEN Raise("struct.error", 0)
  ELSE Raise("TypeError", 0)

\* ByteArray.unpack: the empty input yields the str '', not bytes.
ByteArray_unpack(self, data) ==
  IF Len(data) = 0 THEN Ok(PyStr(<<>>))
  ELSE IF Len(data) > self.maxlen THEN Raise("ValueError", 0)
  ELSE Ok(PyBytes(data))

\* UnixTime.pack: struct.pack('<I', int(time)).  int() of an int is the int,
\* int() of a float drops the fraction; int() of a str or of bytes that
\* spell no decimal number (none of the texts and byte strings drawn here
\* do) is a ValueError.
UnixTime_pack(time) ==
  LET seconds == IF time.t = "float" THEN FloorShift(time.v[2], time.v[1])
                 ELSE time.v
  IN IF time.t \notin {"int", "float"} THEN Raise("ValueError", 0)
     ELSE IF Len(seconds) <= 4 THEN Ok(seconds \o Zeros(4 - Len(seconds)))
     ELSE Raise("struct.error", 0)

\* UnixTime.unpack: struct.unpack('<I', data)[0].
UnixTime_unpack(data) ==
  IF Len(data) = 4 THEN Ok(PyInt(StripZeros(data))) ELSE Raise("struct.error", 0)

\* VLN.pack: class VLN defines __init__ and unpack only, so the attribute
\* lookup fails.
VLN_pack(self, data) == Raise("AttributeError", 0)

\* VLN.unpack: struct.unpack('<Q', data + b'\x00' * (8 - len(data)))[0].
VLN_unpack(self, data) ==
  IF Len(data) > self.maxlen THEN Raise("ValueError", 0)
  ELSE IF Len(data) > 8 THEN Raise("struct.error", 0)
  ELSE Ok(PyInt(StripZeros(data \o Zeros(8 - Len(data)))))

\* FVLN.pack: class FVLN defines __init__ and unpack only.
FVLN_pack(self, data) == Raise("AttributeError", 0)

RECURSIVE DecimalDigits(_)
\* The number of decimal digits of an int given by its digits (0 for 0).
DecimalDigits(digits) ==
  IF digits = <<>> THEN 0
  ELSE 1 + DecimalDigits(StripZeros(DivTen(digits, 0)))

\* The precision of the decimal context the module computes in (the default
\* context of decimal: 28 digits).
DecimalPrec == 28

\* FVLN.unpack: pos is the signed first byte, num the next eight bytes
\* little-endian, of data padded to nine bytes; the result is
\* (Decimal(num) / 10 ** pos).quantize(10 ** -pos) as a float.  For pos >= 0
\* the quotient has the digits of num and the exponent -pos of the quantum.
\* For pos < 0 the quantum 10 ** -pos is a power of more than one digit, which
\* decimal keeps as 1 followed by up to DecimalPrec - 1 zeros, so the
\* quantized coefficient is num followed by that many zeros; quantize raises
\* InvalidOperation when it has more than DecimalPrec digits.
FVLN_unpack(self, data) ==
  IF Len(data) > self.maxlen THEN Raise("ValueError", 0)
  ELSE IF Len(data) > 9 THEN Raise("struct.error", 0)
  ELSE LET padded == data \o Zeros(9 - Len(data))
           pos == IF padded[1] >= 128 THEN padded[1] - 256 ELSE padded[1]
           num == StripZeros(SubSeq(padded, 2, 9))
           zeros == IF -pos < DecimalPrec - 1 THEN -pos ELSE DecimalPrec - 1
       IN IF pos < 0 /\ num # <<>> /\ DecimalDigits(num) + zeros > DecimalPrec
            THEN Raise("InvalidOperation", 0)
            ELSE Ok(PyFloat(pos, num))

\* STLV.pack: returns its argument.
STLV_pack(data) == Ok(data)

\* cls.pack(value) of pack_json, by the class of the registry entry; the
\* bytes that pack_json measures and appends.  What STLV.pack hands back is
\* its argument, which len() and bytes + accept only when it is bytes.
Pack(cls, value) ==
  CASE cls.kind = "Byte" -> Byte_pack(value)
    [] cls.kind = "U32" -> U32_pack(value)
    [] cls.kind = "String" -> String_pack(value)
    [] cls.kind = "ByteArray" -> ByteArray_pack(value)
    [] cls.kind = "UnixTime" -> UnixTime_pack(value)
    [] cls.kind = "VLN" -> VLN_pack(cls, value)
    [] cls.kind = "FVLN" -> FVLN_pack(cls, value)
    [] cls.kind = "STLV" ->
         IF STLV_pack(value).val.t = "bytes"
           THEN Ok(STLV_pack(value).val.v)
           ELSE Raise("TypeError", 0)

(***************************************************************************)
(* Python dict operations on the entries of a dict value                   *)
(***************************************************************************)
\* name in result.
DictHas(entries, name) == \E i \in 1..Len(entries) : entries[i].k = name

\* result[name] for a key that is present.
DictGet(entries, name) ==
  entries[CHOOSE i \in 1..Len(entries) : entries[i].k = name].v

\* result[name] = value: a present key keeps its place, a new key goes last.
DictSet(entries, name, value) ==
  IF DictHas(entries, name)
    THEN [i \in 1..Len(entries) |->
            IF entries[i].k = name THEN [k |-> name, v |-> value] ELSE entries[i]]
    ELSE Append(entries, [k |-> name, v |-> value])

(***************************************************************************)
(* STLV.unpack                                                             *)
(***************************************************************************)
\* The placement of one decoded child into result, lines 187-195: a child
\* whose class has a cardinality of '*' or '+' is appended to the list under
\* its name (created when the name is absent; append on a value that is no
\* list is an AttributeError), any other child is assigned to its name.
STLV_place(result, doc, value) ==
  IF doc.cardinality \in {"*", "+"}
    THEN LET present == IF DictHas(result, doc.name)
                          THEN result
                          ELSE DictSet(result, doc.name, PyList(<<>>))
             held == DictGet(present, doc.name)
         IN IF held.t = "list"
              THEN Ok(DictSet(present, doc.name, PyList(Append(held.v, value))))
              ELSE Raise("AttributeError", 0)
    ELSE Ok(DictSet(result, doc.name, value))

RECURSIVE Unpack(_, _)
RECURSIVE STLV_unpack(_, _)
RECURSIVE STLV_unpack_loop(_, _)

\* doc.unpack(data), by the class of the registry entry.
Unpack(doc, data) ==
  CASE doc.kind = "Byte" -> Byte_unpack(data)
    [] doc.kind = "U32" -> U32_unpack(data)
    [] doc.kind = "String" -> String_unpack(doc, data)
    [] doc.kind = "ByteArray" -> ByteArray_unpack(doc, data)
    [] doc.kind = "UnixTime" -> UnixTime_unpack(data)
    [] doc.kind = "VLN" -> VLN_unpack(doc, data)
    [] doc.kind = "FVLN" -> FVLN_unpack(doc, data)
    [] doc.kind = "STLV" -> STLV_unpack(doc, data)

\* The while loop of STLV.unpack on the bytes still to read and the result
\* so far: struct.unpack('<HH', data[:4]) needs four bytes, DOCUMENTS[ty]
\* is a KeyError carrying ty for a tag outside the registry, the value is
\* the slice data[4:4 + length], which Python cuts at the end of data.
STLV_unpack_loop(data, result) ==
  IF Len(data) = 0 THEN Ok(PyDict(result))
  ELSE IF Len(Slice(data, 0, 4)) # 4 THEN Raise("struct.error", 0)
  ELSE LET ty == UnpackU16(SubSeq(data, 1, 2))
           length == UnpackU16(SubSeq(data, 3, 4))
           found == DOCUMENTS_getitem(ty)
       IN IF ~found.ok THEN found
          ELSE LET doc == found.val
                   value == Unpack(doc, Slice(data, 4, 4 + length))
               IN IF ~value.ok THEN value
                  ELSE LET placed == STLV_place(result, doc, value.val)
                       IN IF ~placed.ok THEN placed
                          ELSE STLV_unpack_loop(SliceFrom(data, 4 + length), placed.val)

\* STLV.unpack without the check of maxlen.
STLV_unpack_any_length(self, data) ==
  STLV_unpack_loop(data, <<>>)

\* STLV.unpack.
STLV_unpack(self, data) ==
  IF Len(data) > self.maxlen THEN Raise("ValueError", 0)
  ELSE STLV_unpack_loop(data, <<>>)

(***************************************************************************)
(* pack_json                                                               *)
(***************************************************************************)
RECURSIVE pack_json(_, _)
RECURSIVE pack_json_loop(_, _, _)
RECURSIVE pack_json_list(_, _)

\* The index a call of pack_json uses when it passes none: docs=DOCS_BY_DESC.
pack_json_default_docs == "desc"

\* The branch for a list value, lines 1198-1201: data is the concatenation
\* of pack_json(item) over the items, each call with the default index.
pack_json_list(items, data) ==
  IF items = <<>> THEN Ok(data)
  ELSE LET one == pack_json(Head(items), pack_json_default_docs)
       IN IF ~one.ok THEN one ELSE pack_json_list(Tail(items), data \o one.val)

\* The for loop of pack_json on the entries still to write and wr so far.
\* The recursive call for a dict value passes no docs.
pack_json_loop(items, docs, wr) ==
  IF items = <<>> THEN Ok(wr)
  ELSE LET name == Head(items).k
           value == Head(items).v
           found == DocsLookup(docs, name)
       IN IF ~found.ok THEN found
          ELSE LET data == IF value.t = "dict"
                             THEN pack_json(value, pack_json_default_docs)
                           ELSE IF value.t = "list"
                             THEN pack_json_list(value.v, <<>>)
                           ELSE Pack(found.val, value)
               IN IF ~data.ok THEN data
                  ELSE LET head == PackHH(found.val.ty, Len(data.val))
                       IN IF ~head.ok THEN head
                          ELSE pack_json_loop(Tail(items), docs, wr \o head.val \o data.val)

\* pack_json(doc, docs): doc.items() exists on a dict only.
pack_json(doc, docs) ==
  IF doc.t # "dict" THEN Raise("AttributeError", 0)
  ELSE pack_json_loop(doc.v, docs, <<>>)

(***************************************************************************)
(* The inputs the caller draws                                             *)
(***************************************************************************)
\* The longest byte string handed to a scalar codec.
MaxData == 5

\* The longest text handed to String.pack.
MaxChars == 2

\* The number of triples, nested ones included, of a body handed to
\* STLV.unpack.
MaxTriples == 3

\* The number of entries, nested ones included, of a document handed to
\* pack_json.
MaxEntries == 4

\* The bytes of the scalar inputs: zero and a byte above 0x7f (CP866 'T'
\* Cyrillic, U+0422).
DataBytes == {0, 146}

\* The characters of the texts: 'A', Cyrillic U+0422 and the euro sign,
\* which CP866 lacks.
TextChars == {65, 1058, 8364}

RECURSIVE SeqsUpTo(_, _)
\* The sequences over S of length at most n.
SeqsUpTo(S, n) ==
  IF n = 0 THEN {<<>>}
  ELSE LET shorter == SeqsUpTo(S, n - 1)
       IN shorter \cup {Append(s, x) : s \in shorter, x \in S}

\* A codec object as its constructor builds it; the registry adds ty.
ScalarCodec(kind, maxlen) ==
  [kind |-> kind, name |-> "", desc |-> "", maxlen |-> maxlen,
   cardinality |-> IF kind = "Byte" THEN "None" ELSE "absent"]

\* The scalar codec objects: Byte, U32 and UnixTime fix their maxlen, the
\* other constructors take it.
ScalarCodecs ==
  {ScalarCodec("Byte", 1), ScalarCodec("U32", 4), ScalarCodec("UnixTime", 4)}
  \cup {ScalarCodec(k, m) : k \in {"String", "ByteArray", "VLN", "FVLN"}, m \in 0..MaxData}

\* The byte strings handed to the scalar decoders: every string over
\* DataBytes up to MaxData, and the inputs of the tests of VLN.unpack and
\* FVLN.unpack.
GenScalarData ==
  SeqsUpTo(DataBytes, MaxData) \cup {<<233, 45, 6>>, <<2, 21, 205, 91, 7>>}

\* The decimals handed to the scalar encoders, as <<pos, mantissa>>:
\* 1234567.89, 1453.67 and 1234567123.893 of the tests, and 0.5.
ScalarDecimals ==
  { <<2, <<21, 205, 91, 7>> >>, <<2, <<215, 55, 2>> >>,
    <<3, <<181, 83, 239, 113, 31, 1>> >>, <<1, <<5>> >> }

\* The values handed to the scalar encoders.
ScalarValues ==
  {PyInt(StripZeros(b)) : b \in SeqsUpTo(DataBytes, MaxData)}
  \cup {PyBytes(b) : b \in SeqsUpTo(DataBytes, MaxData)}
  \cup {PyStr(s) : s \in SeqsUpTo(TextChars, MaxChars)}
  \cup {PyFloat(d[1], d[2]) : d \in ScalarDecimals}

\* One triple on the wire with the length field as given.
Triple(ty, length, body) == PackU16(ty) \o PackU16(length) \o body

\* Two tags the registry lacks (their lines in the dict literal are
\* comments).
UnknownTags == {1087, 1088}

\* The length of the long String value of the generated bodies: its triple
\* is longer than the smallest maxlen of a container of the registry (33).
LongText == 30

\* The leaf triples of the generated bodies: a child of every scalar class
\* but UnixTime, a second value for the Byte child, a U32 child one byte
\* short, a long String child, and the unknown tags.
GenLeaves ==
  { <<1022, <<3>> >>, <<1022, <<4>> >>, <<1015, <<42, 0, 0, 0>> >>,
    <<1015, <<42, 0, 0>> >>, <<1066, <<146>> >>, <<1078, <<1>> >>,
    <<1077, <<1>> >>, <<1070, <<2, 21>> >>,
    <<1066, [i \in 1..LongText |-> 146]>> }
  \cup {<<ty, <<>> >> : ty \in UnknownTags}

\* The containers of the generated bodies: an array tag that shares its
\* name with the String 1066, and the tag of cardinality '1' with the
\* smallest maxlen.
GenContainers == {1069, 1032}

\* prev = <<B0, ..., B(n-1)>> extended by Bn, Bk the bodies of at most k
\* triples (nested ones counted): sequences of well-formed triples, and
\* those whose last triple declares one byte more than it has.
GenBodiesExtend(prev, n) ==
  LET units(k) ==
        IF k = 1
          THEN {<<l[1], l[2]>> : l \in GenLeaves}
               \cup {<<c, <<>> >> : c \in GenContainers}
          ELSE {<<c, inner>> : c \in GenContainers, inner \in prev[k]}
      closed(k) == {Triple(u[1], Len(u[2]), u[2]) : u \in units(k)}
      open(k) == {Triple(u[1], Len(u[2]) + 1, u[2]) : u \in units(k)}
  IN Append(prev,
            {<<>>}
            \cup UNION {{t \o rest : t \in closed(k), rest \in prev[n - k + 1]}
                         : k \in 1..n}
            \cup UNION {open(k) : k \in 1..n})

RECURSIVE GenBodiesUpTo(_)
\* <<B0, ..., Bn>>.
GenBodiesUpTo(n) ==
  IF n = 0 THEN << {<<>>} >> ELSE GenBodiesExtend(GenBodiesUpTo(n - 1), n)

\* The bodies of at most n triples handed to STLV.unpack, and two that end
\* in the middle of a four-byte prefix.
GenBodies(n) ==
  GenBodiesUpTo(n)[n + 1]
  \cup {<<42, 4>>, Triple(1022, 1, <<3>>) \o <<42, 4>>}

\* The containers STLV.unpack is called on: a document and the container
\* with the smallest maxlen.
GenTops == {DOCUMENTS(7), DOCUMENTS(1032)}

\* The values the generated documents give to scalar keys.
GenValue(ty) ==
  CASE ty = 1015 -> Num(42)
    [] ty = 1055 -> Num(1)
    [] ty = 1066 -> PyStr(<<1058>>)
    [] ty = 1030 -> PyStr(<<65>>)
    [] ty = 1078 -> PyBytes(<<>>)
    [] ty = 1077 -> Num(1)

\* The tags the generated documents put under a parent tag (0: the outer
\* mapping), after the documents of the tests and of SCHEMA.
GenChildren(parent) ==
  CASE parent = 0 -> {7, 3, 1, 1059, 1015, 1077, 1078}
    [] parent = 7 -> {1068}
    [] parent = 1068 -> {1047}
    [] parent = 1047 -> {1015}
    [] parent = 3 -> {1055, 1059, 1066}
    [] parent = 1 -> {1055}
    [] parent = 1059 -> {1030, 1015}

RECURSIVE GenDocs(_, _, _)
RECURSIVE GenLists(_, _, _)
\* The lists of one or more non-empty documents under the array tag parent,
\* with at most n entries in all.
GenLists(docs, parent, n) ==
  IF n = 0 THEN {}
  ELSE UNION {{<<PyDict(d)>>}
              \cup {<<PyDict(d)>> \o rest : rest \in GenLists(docs, parent, n - Len(d))}
              : d \in GenDocs(docs, parent, n) \ {<<>>}}

\* The well-formed documents (entry sequences) of at most n entries under
\* parent, keyed through the index docs: keys distinct within a mapping, a
\* value of the type of the key's class, a mapping under an STLV tag, a list
\* of mappings exactly under a tag of cardinality '*' or '+'.
GenDocs(docs, parent, n) ==
  IF n = 0 THEN {<<>>}
  ELSE LET key(ty) == KeyIn(docs, DOCUMENTS(ty))
           scalars == {c \in GenChildren(parent) : DOCUMENTS(c).kind # "STLV"}
           arrays == {c \in GenChildren(parent) :
                        /\ DOCUMENTS(c).kind = "STLV"
                        /\ DOCUMENTS(c).cardinality \in {"*", "+"}}
           mappings == {c \in GenChildren(parent) :
                          /\ DOCUMENTS(c).kind = "STLV"
                          /\ DOCUMENTS(c).cardinality \notin {"*", "+"}}
           units ==
             {<<1, key(c), GenValue(c)>> : c \in scalars}
             \cup UNION {{<<k, key(c), PyDict(inner)>> : inner \in GenDocs(docs, c, k - 1)}
                          : k \in 1..n, c \in mappings}
             \cup UNION {{<<k, key(c), PyList(l)>> : l \in GenLists(docs, c, k - 1)}
                          : k \in 2..n, c \in arrays}
       IN {<<>>}
          \cup UNION {{<<[k |-> u[2], v |-> u[3]]>> \o rest
                        : rest \in {r \in GenDocs(docs, parent, n - u[1]) : ~DictHas(r, u[2])}}
                      : u \in units}

(***************************************************************************)
(* The caller                                                              *)
(***************************************************************************)
None == [t |-> "None", v |-> <<>>]

Init ==
  /\ pc = "idle"
  /\ op = "none"
  /\ obj = None
  /\ index = "none"
  /\ arg = None
  /\ wire = NoResult
  /\ out = NoResult

\* codec.unpack(data) on arbitrary bytes.
ScalarUnpack ==
  /\ pc = "idle"
  /\ \E c \in ScalarCodecs, d \in GenScalarData :
       /\ obj' = c
       /\ wire' = Ok(d)
       /\ out' = Unpack(c, d)
  /\ op' = "unpack"
  /\ pc' = "done"
  /\ UNCHANGED <<index, arg>>

\* codec.pack(value).
ScalarPack ==
  /\ pc = "idle"
  /\ \E c \in ScalarCodecs, v \in ScalarValues :
       /\ obj' = c
       /\ arg' = v
       /\ wire' = Pack(c, v)
  /\ op' = "pack"
  /\ pc' = "packed"
  /\ UNCHANGED <<index, out>>

\* codec.unpack(packed) on the bytes codec.pack returned.
ScalarUnpackPacked ==
  /\ pc = "packed"
  /\ op = "pack"
  /\ wire.ok
  /\ out' = Unpack(obj, wire.val)
  /\ pc' = "done"
  /\ UNCHANGED <<op, obj, index, arg, wire>>

\* STLV.unpack(body) on the bytes of a body.
StlvUnpack ==
  /\ pc = "idle"
  /\ \E top \in GenTops, body \in GenBodies(MaxTriples) :
       /\ obj' = top
       /\ wire' = Ok(body)
       /\ out' = STLV_unpack(top, body)
  /\ op' = "STLV.unpack"
  /\ pc' = "done"
  /\ UNCHANGED <<index, arg>>

\* pack_json(doc, docs=index).
PackJson ==
  /\ pc = "idle"
  /\ \E ix \in {"name", "desc"} :
       \E d \in GenDocs(ix, 0, MaxEntries) :
          /\ index' = ix
          /\ arg' = PyDict(d)
          /\ wire' = pack_json(PyDict(d), ix)
  /\ op' = "pack_json"
  /\ pc' = "packed"
  /\ UNCHANGED <<obj, out>>

\* STLV.unpack on the bytes pack_json returned.
UnpackPacked ==
  /\ pc = "packed"
  /\ op = "pack_json"
  /\ wire.ok
  /\ \E top \in GenTops :
       /\ obj' = top
       /\ out' = STLV_unpack(top, wire.val)
  /\ pc' = "done"
  /\ UNCHANGED <<op, index, arg, wire>>

\* The caller drops the results and is ready for the next call.
Return ==
  /\ pc \in {"packed", "done"}
  /\ pc' = "idle"
  /\ op' = "none"
  /\ obj' = None
  /\ index' = "none"
  /\ arg' = None
  /\ wire' = NoResult
  /\ out' = NoResult

NextScalar == ScalarUnpack \/ ScalarPack \/ ScalarUnpackPacked \/ Return

NextDecode == StlvUnpack \/ Return

NextEncode == PackJson \/ UnpackPacked \/ Return

SpecScalar == Init /\ [][NextScalar]_vars

SpecDecode == Init /\ [][NextDecode]_vars

SpecEncode == Init /\ [][NextEncode]_vars


(***************************************************************************)
(* The shape of a body as STLV.unpack walks it                             *)
(***************************************************************************)
\* The tag of the triple at the head of data (four bytes or more).
HeadTag(data) == UnpackU16(SubSeq(data, 1, 2))

\* The length field of the triple at the head of data.
HeadLength(data) == UnpackU16(SubSeq(data, 3, 4))

\* The value bytes the decoder hands to the child: data[4:4 + length].
HeadValue(data) == Slice(data, 4, 4 + HeadLength(data))

\* What follows the triple at the head of data: data[4 + length:].
AfterHead(data) == SliceFrom(data, 4 + HeadLength(data))

\* Whether the triple at the head of data is a nested container.
HeadIsContainer(data) ==
  HeadTag(data) \in DOCUMENTS_KEYS /\ DOCUMENTS(HeadTag(data)).kind = "STLV"

RECURSIVE UnknownTagsIn(_)
\* The tags outside the registry among the triples of a body, at any depth,
\* in wire order (depth first).
UnknownTagsIn(data) ==
  IF Len(data) < 4 THEN <<>>
  ELSE (IF HeadTag(data) \notin DOCUMENTS_KEYS THEN <<HeadTag(data)>>
        ELSE IF HeadIsContainer(data) THEN UnknownTagsIn(HeadValue(data))
        ELSE <<>>)
       \o UnknownTagsIn(AfterHead(data))

RECURSIVE HasOverrun(_)
\* Whether some triple of a body, at any depth, has a length field larger
\* than the number of bytes that follow its four-byte prefix.
HasOverrun(data) ==
  IF Len(data) < 4 THEN FALSE
  ELSE \/ HeadLength(data) > Len(data) - 4
       \/ HeadIsContainer(data) /\ HasOverrun(HeadValue(data))
       \/ HasOverrun(AfterHead(data))

RECURSIVE TopTriples(_)
\* The triples of the outer level of a body, in wire order, as
\* <<tag, value bytes>>.
TopTriples(data) ==
  IF Len(data) < 4 THEN <<>>
  ELSE <<<<HeadTag(data), HeadValue(data)>>>> \o TopTriples(AfterHead(data))

RECURSIVE FirstUnknownOffset(_)
\* For a body that holds an unknown tag: the offset of the triple of its
\* outer level that carries the first one, or holds it inside.
FirstUnknownOffset(data) ==
  IF \/ HeadTag(data) \notin DOCUMENTS_KEYS
     \/ HeadIsContainer(data) /\ UnknownTagsIn(HeadValue(data)) # <<>>
    THEN 0
    ELSE 4 + HeadLength(data) + FirstUnknownOffset(AfterHead(data))

RECURSIVE CleanBeforeUnknown(_, _)
\* For a body that holds an unknown tag: nothing fails before the first one
\* is reached.  The body is within the maxlen of its container, the bytes
\* that precede the triple carrying the tag decode on their own, and the
\* same holds inside that triple when it is a container.
CleanBeforeUnknown(self, data) ==
  LET off == FirstUnknownOffset(data)
      rest == SliceFrom(data, off)
  IN /\ Len(data) <= self.maxlen
     /\ STLV_unpack(self, SubSeq(data, 1, off)).ok
     /\ \/ HeadTag(rest) \notin DOCUMENTS_KEYS
        \/ CleanBeforeUnknown(DOCUMENTS(HeadTag(rest)), HeadValue(rest))

(***************************************************************************)
(* Properties of the scalar codecs (specification SpecScalar)              *)
(***************************************************************************)
\* The values of a scalar kind whose encoding fits the codec: an int of one
\* byte for Byte, of four for U32 and UnixTime, of at most maxlen (and eight)
\* bytes for VLN, a decimal for FVLN, a text of CP866 characters of at most
\* maxlen for String, at most maxlen bytes for ByteArray.
ScalarDomain(self, value) ==
  CASE self.kind = "Byte" -> value.t = "int" /\ Len(value.v) <= 1
    [] self.kind \in {"U32", "UnixTime"} -> value.t = "int" /\ Len(value.v) <= 4
    [] self.kind = "VLN" ->
         value.t = "int" /\ Len(value.v) <= self.maxlen /\ Len(value.v) <= 8
    [] self.kind = "FVLN" -> value.t = "float"
    [] self.kind = "String" ->
         /\ value.t = "str"
         /\ Len(value.v) <= self.maxlen
         /\ \A i \in 1..Len(value.v) : Cp866Encodable(value.v[i])
    [] self.kind = "ByteArray" -> value.t = "bytes" /\ Len(value.v) <= self.maxlen

\* C8: for each scalar kind and every value of its domain that fits maxlen,
\* pack returns bytes and unpack of those bytes returns a value equal to the
\* one packed and of its type.
C8_ScalarRoundTrip ==
  (op = "pack" /\ ScalarDomain(obj, arg)) =>
     /\ wire.ok
     /\ pc = "done" => (out.ok /\ out.val = arg)

\* C9: unpack of a scalar codec raises on every input longer than the
\* codec's maxlen; Byte.unpack raises on every input whose length is not 1
\* and U32.unpack on every input whose length is not 4.
C9_UnpackEnforcesMaxlen ==
  (pc = "done" /\ op = "unpack") =>
     /\ Len(wire.val) > obj.maxlen => ~out.ok
     /\ (obj.kind = "Byte" /\ Len(wire.val) # 1) => ~out.ok
     /\ (obj.kind = "U32" /\ Len(wire.val) # 4) => ~out.ok

\* C9 happens: String.unpack has rejected an input of CP866 text that is
\* longer than the declared maxlen.
C9_Witness ==
  /\ pc = "done"
  /\ op = "unpack"
  /\ obj.kind = "String"
  /\ obj.maxlen >= 1
  /\ Len(wire.val) > obj.maxlen
  /\ out.err = "ValueError"

\* C10: for a VLN codec with maxlen under 8 and a value of at most eight
\* bytes, pack returns the first maxlen bytes of the little-endian form when
\* the bytes dropped are all zero, and raises ValueError when one is not.
C10_VlnPackTruncates ==
  (/\ op = "pack"
   /\ obj.kind = "VLN"
   /\ obj.maxlen < 8
   /\ arg.t = "int"
   /\ Len(arg.v) <= 8) =>
     IF Len(arg.v) <= obj.maxlen
       THEN wire.ok /\ wire.val = arg.v \o Zeros(obj.maxlen - Len(arg.v))
       ELSE ~wire.ok /\ wire.err = "ValueError"

(***************************************************************************)
(* Properties of STLV.unpack (specification SpecDecode)                    *)
(***************************************************************************)
\* The decoded values of the children of tag ty on the outer level of data,
\* in wire order.
OccurrencesOf(ty, data) ==
  LET hit(t) == t[1] = ty
      found == SelectSeq(TopTriples(data), hit)
  IN [i \in 1..Len(found) |-> Unpack(DOCUMENTS(ty), found[i][2]).val]

\* C2: after a successful decode, the name of every child of cardinality
\* '*' or '+' holds the list of the decoded values of all occurrences of
\* its tag in wire order, and the name of every other child holds the
\* decoded value of the last occurrence of its tag.
C2_PlacementByCardinality ==
  (pc = "done" /\ op = "STLV.unpack" /\ out.ok) =>
     \A i \in 1..Len(TopTriples(wire.val)) :
        LET ty == TopTriples(wire.val)[i][1]
            doc == DOCUMENTS(ty)
            values == OccurrencesOf(ty, wire.val)
        IN /\ DictHas(out.val.v, doc.name)
           /\ DictGet(out.val.v, doc.name) =
                IF doc.cardinality \in {"*", "+"}
                  THEN PyList(values)
                  ELSE values[Len(values)]

\* C6: a body in which some triple, at any depth, declares more bytes than
\* follow its prefix does not decode.
C6_OverrunRejected ==
  (pc = "done" /\ op = "STLV.unpack" /\ HasOverrun(wire.val)) => ~out.ok

\* The tags of a sequence of tags.
TagSet(tags) == {tags[i] : i \in 1..Len(tags)}

\* C7 as written: a body that holds a triple with a tag outside the
\* registry, at any depth, fails to decode with the error for an unknown
\* tag (KeyError), which carries the number of such a tag.
C7_UnknownTagError ==
  (pc = "done" /\ op = "STLV.unpack" /\ UnknownTagsIn(wire.val) # <<>>) =>
     /\ ~out.ok
     /\ out.err = "KeyError"
     /\ out.info \in TagSet(UnknownTagsIn(wire.val))

\* C7 amended: a body that holds a triple with a tag outside the registry,
\* at any depth, never decodes to a document; a KeyError the decode raises
\* carries the first such tag in wire order; and the decode raises that
\* KeyError whenever nothing fails before the first such triple is reached.
C7_UnknownTagFirstFault ==
  (pc = "done" /\ op = "STLV.unpack" /\ UnknownTagsIn(wire.val) # <<>>) =>
     /\ ~out.ok
     /\ out.val = <<>>
     /\ out.err = "KeyError" => out.info = Head(UnknownTagsIn(wire.val))
     /\ CleanBeforeUnknown(obj, wire.val) =>
          (out.err = "KeyError" /\ out.info = Head(UnknownTagsIn(wire.val)))

\* C7 happens: an unknown tag nested in a container that follows a decoded
\* child has stopped the decode with a KeyError for that tag.
C7_Witness ==
  /\ pc = "done"
  /\ op = "STLV.unpack"
  /\ Len(UnknownTagsIn(wire.val)) >= 1
  /\ FirstUnknownOffset(wire.val) > 0
  /\ HeadIsContainer(SliceFrom(wire.val, FirstUnknownOffset(wire.val)))
  /\ CleanBeforeUnknown(obj, wire.val)
  /\ out.err = "KeyError"
  /\ out.info = Head(UnknownTagsIn(wire.val))

(***************************************************************************)
(* Properties of pack_json (specification SpecEncode)                      *)
(***************************************************************************)
RECURSIVE NamedTree(_, _)
\* A document keyed through the index docs with every key replaced by the
\* name of its registry entry: the keys STLV.unpack stores values under.
NamedTree(value, docs) ==
  IF value.t = "dict"
    THEN PyDict([i \in 1..Len(value.v) |->
                   [k |-> DocsLookup(docs, value.v[i].k).val.name,
                    v |-> NamedTree(value.v[i].v, docs)]])
  ELSE IF value.t = "list"
    THEN PyList([i \in 1..Len(value.v) |-> NamedTree(value.v[i], docs)])
  ELSE value

\* C1: encoding a well-formed document returns bytes, and decoding those
\* bytes returns a tree equal to the document (keys by registry name, the
\* elements of every array in their order).
C1_DocumentRoundTrip ==
  op = "pack_json" =>
     /\ wire.ok
     /\ pc = "done" => (out.ok /\ PyEq(out.val, NamedTree(arg, index)))

RECURSIVE ElementTriples(_, _)
\* One triple of tag ty per element of a list, each with the length of the
\* encoding pack_json gives that element.
ElementTriples(ty, elems) ==
  IF elems = <<>> THEN <<>>
  ELSE LET one == pack_json(Head(elems), pack_json_default_docs).val
       IN Triple(ty, Len(one), one) \o ElementTriples(ty, Tail(elems))

RECURSIVE TriplePerElement(_, _)
\* The bytes of a mapping in which a list entry is one triple per element
\* and any other entry is what pack_json makes of it.
TriplePerElement(entries, docs) ==
  IF entries = <<>> THEN <<>>
  ELSE LET e == Head(entries)
           first == IF e.v.t = "list"
                      THEN ElementTriples(DocsLookup(docs, e.k).val.ty, e.v.v)
                      ELSE pack_json(PyDict(<<e>>), docs).val
       IN first \o TriplePerElement(Tail(entries), docs)

\* C3: the bytes pack_json returns hold, for an entry whose value is a list
\* of n elements, n consecutive triples of the entry's tag, one per element
\* in list order with that element's length, and no triple around them.
C3_ListIsTriplePerElement ==
  (op = "pack_json" /\ wire.ok) => wire.val = TriplePerElement(arg.v, index)

RECURSIVE HasList(_)
\* Whether a document holds a list at any depth.
HasList(value) ==
  \/ value.t = "list"
  \/ value.t = "dict" /\ \E i \in 1..Len(value.v) : HasList(value.v[i].v)

RECURSIVE TripleEncoding(_, _)
\* The encoding of a mapping of scalar and mapping entries keyed through
\* docs: per entry, in insertion order, the tag of the key, the length of
\* the body and the body, which is the scalar codec's encoding of a scalar
\* and this encoding of a mapping.
TripleEncoding(entries, docs) ==
  IF entries = <<>> THEN Ok(<<>>)
  ELSE LET e == Head(entries)
           found == DocsLookup(docs, e.k)
           body == IF e.v.t = "dict" THEN TripleEncoding(e.v.v, docs)
                   ELSE Pack(found.val, e.v)
           rest == TripleEncoding(Tail(entries), docs)
       IN IF ~found.ok THEN found
          ELSE IF ~body.ok THEN body
          ELSE IF ~rest.ok THEN rest
          ELSE Ok(Triple(found.val.ty, Len(body.val), body.val) \o rest.val)

\* C4: for a document of scalar and mapping entries whose keys are in the
\* index in use, pack_json returns the concatenation in insertion order of
\* one triple <tag, length, body> per entry, the body of a mapping being the
\* same encoding of its entries.
C4_TriplePerEntry ==
  (op = "pack_json" /\ ~HasList(arg)) =>
     /\ wire.ok
     /\ wire = TripleEncoding(arg.v, index)

\* The document {parent: {'taxationType': 1}}.
TaxationTypeUnder(parent) ==
  PyDict(<<[k |-> parent,
            v |-> PyDict(<<[k |-> "taxationType", v |-> Num(1)]>>)]>>)

\* C5: encoding {taxationType: 1} by name as a child of receipt (tag 3)
\* emits tag 1055 and as a child of fiscalReport (tag 1) emits tag 1062.
C5_ParentSelectsTag ==
  (op = "pack_json" /\ index = "name") =>
     /\ arg = TaxationTypeUnder("receipt") =>
          (wire.ok /\ wire.val = Triple(3, 5, Triple(1055, 1, <<1>>)))
     /\ arg = TaxationTypeUnder("fiscalReport") =>
          (wire.ok /\ wire.val = Triple(1, 5, Triple(1062, 1, <<1>>)))

(***************************************************************************)
(* Properties of the scalar encoders (specification SpecScalar)            *)
(***************************************************************************)
\* Whether every byte of a byte string is zero.
AllZero(bytes) == \A i \in 1..Len(bytes) : bytes[i] = 0

\* The nine bytes <pos><mantissa little-endian> of a decimal of the model.
FvlnForm(value) == <<value.v[1]>> \o value.v[2] \o Zeros(8 - Len(value.v[2]))

\* C11: FVLN.pack of a decimal with p fractional digits and mantissa M
\* returns the byte p and the little-endian bytes of M cut to maxlen bytes
\* when every byte cut is zero, and raises ValueError when one is not.
C11_FvlnPackTruncates ==
  (op = "pack" /\ obj.kind = "FVLN" /\ arg.t = "float") =>
     IF AllZero(SliceFrom(FvlnForm(arg), obj.maxlen))
       THEN wire.ok /\ wire.val = Slice(FvlnForm(arg), 0, obj.maxlen)
       ELSE ~wire.ok /\ wire.err = "ValueError"

\* The byte length of the encoded form of a text or byte string.
EncodedLen(value) == Len(value.v)

\* C12: String.pack and ByteArray.pack raise on a value whose encoded form is
\* longer than the declared maxlen and return no bytes, so unpack never
\* rejects as too long what pack of the same entry returned.
C12_PackEnforcesMaxlen ==
  (/\ op = "pack"
   /\ \/ obj.kind = "String" /\ arg.t = "str"
      \/ obj.kind = "ByteArray" /\ arg.t = "bytes") =>
     /\ EncodedLen(arg) > obj.maxlen => (~wire.ok /\ wire.val = <<>>)
     /\ pc = "done" => out.err # "ValueError"

(***************************************************************************)
(* struct.Struct with a little-endian format: a format is the sequence of  *)
(* its fields [code, size], code "int" for B, H, I (1, 2, 4 bytes) and     *)
(* "s" for a byte string of size bytes.  A field of one or two bytes is a  *)
(* number; a field of four bytes is the digits of a Python int (see        *)
(* PyInt), as its values pass 2^31.                                        *)
(***************************************************************************)
\* The field B, H or I of a format.
FmtB == [code |-> "int", size |-> 1]
FmtH == [code |-> "int", size |-> 2]
FmtI == [code |-> "int", size |-> 4]

\* The field <size>s of a format.
FmtS(size) == [code |-> "s", size |-> size]

RECURSIVE StructSize(_)
\* Struct.size: the number of bytes of a format.
StructSize(fmt) ==
  IF fmt = <<>> THEN 0 ELSE Head(fmt).size + StructSize(Tail(fmt))

\* The little-endian number of one or two bytes.
SmallInt(bytes) == IF Len(bytes) = 1 THEN bytes[1] ELSE bytes[1] + 256 * bytes[2]

RECURSIVE StructUnpackFields(_, _)
\* The values of the fields of fmt read from data of StructSize(fmt) bytes.
StructUnpackFields(fmt, data) ==
  IF fmt = <<>> THEN <<>>
  ELSE LET f == Head(fmt)
           raw == SubSeq(data, 1, f.size)
           value == IF f.code = "s" THEN raw
                    ELSE IF f.size = 4 THEN StripZeros(raw)
                    ELSE SmallInt(raw)
       IN <<value>> \o StructUnpackFields(Tail(fmt), SliceFrom(data, f.size))

\* Struct.unpack(data): struct.error unless data has the size of the format.
StructUnpack(fmt, data) ==
  IF Len(data) # StructSize(fmt) THEN Raise("struct.error", 0)
  ELSE Ok(StructUnpackFields(fmt, data))

\* Whether Struct.pack takes value for the field f: a number of the field's
\* range, any byte string for an s field.
StructFits(f, value) ==
  IF f.code = "s" THEN TRUE
  ELSE IF f.size = 4 THEN Len(value) <= 4
  ELSE IF f.size = 2 THEN value \in 0..65535
  ELSE value \in 0..255

\* The bytes of one field: a number little-endian, a byte string cut or
\* padded with zero bytes to the size of the field.
StructField(f, value) ==
  IF f.code = "s" THEN Slice(value, 0, f.size) \o Zeros(f.size - Len(value))
  ELSE IF f.size = 4 THEN value \o Zeros(4 - Len(value))
  ELSE IF f.size = 2 THEN <<value % 256, value \div 256>>
  ELSE <<value>>

RECURSIVE StructPackFields(_, _)
\* The bytes of the fields of fmt, all values in range.
StructPackFields(fmt, values) ==
  IF fmt = <<>> THEN <<>>
  ELSE StructField(Head(fmt), Head(values)) \o StructPackFields(Tail(fmt), Tail(values))

\* Struct.pack(*values): struct.error when a number is out of the range of
\* its field.
StructPack(fmt, values) ==
  IF \E i \in 1..Len(fmt) : ~StructFits(fmt[i], values[i])
    THEN Raise("struct.error", 0)
    ELSE Ok(StructPackFields(fmt, values))

\* pack[i:] of a tuple, i counted from 0.
TupleFrom(pack, i) == SubSeq(pack, i + 1, Len(pack))

(***************************************************************************)
(* crcmod.predefined.mkPredefinedCrcFun('crc-ccitt-false'): the CRC of     *)
(* 16 bits with polynomial 0x11021, initial value 0xFFFF, bytes taken most *)
(* significant bit first, no final xor, computed a byte at a time through  *)
(* a table of 256 entries.                                                 *)
(***************************************************************************)
RECURSIVE Xor(_, _)
\* a ^ b on natural numbers.
Xor(a, b) ==
  IF a = 0 THEN b
  ELSE IF b = 0 THEN a
  ELSE ((a + b) % 2) + 2 * Xor(a \div 2, b \div 2)

\* The generator polynomial without its leading term: 0x1021.
CrcPoly == 4129

\* The initial value of the register: 0xFFFF.
CrcInit == 65535

RECURSIVE CrcShift(_, _)
\* The register after n shifts with no input.
CrcShift(crc, n) ==
  IF n = 0 THEN crc
  ELSE LET shifted == (crc * 2) % 65536
       IN CrcShift(IF crc >= 32768 THEN Xor(shifted, CrcPoly) ELSE shifted, n - 1)

\* The table: entry i is the register i << 8 after eight shifts.
CrcTable == [i \in 0..255 |-> CrcShift(i * 256, 8)]

\* The register after one more byte: the table entry of the byte xored
\* into the high half, xored with the low half moved up.
CrcByte(crc, byte) ==
  Xor(CrcTable[Xor(crc \div 256, byte)], (crc % 256) * 256)

RECURSIVE CrcUpdate(_, _)
\* The register after the bytes of data, first to last (the pass over the
\* first half, then the pass over the second half from where it ended).
CrcUpdate(crc, data) ==
  IF data = <<>> THEN crc
  ELSE IF Len(data) = 1 THEN CrcByte(crc, data[1])
  ELSE LET half == Len(data) \div 2
       IN CHOOSE last \in {CrcUpdate(mid, SubSeq(data, half + 1, Len(data)))
                             : mid \in {CrcUpdate(crc, SubSeq(data, 1, half))}}
                 : TRUE

\* f(data) of the predefined function.
CrcCcittFalse(data) == CrcUpdate(CrcInit, data)

(***************************************************************************)
(* FrameHeader.  An object is the record of its attributes.                *)
(***************************************************************************)
FrameHeader_MSGTYPE_ID == 2
FrameHeader_VERSION_ID == 4
FrameHeader_MSGTYPE == 165
FrameHeader_VERSION == 1

\* STRUCT = struct.Struct('<HHBBB2s8s3s12s').
FrameHeader_STRUCT ==
  <<FmtH, FmtH, FmtB, FmtB, FmtB, FmtS(2), FmtS(8), FmtS(3), FmtS(12)>>

\* STRUCT_TINY = struct.Struct('<BBB2s8s3s12s').
FrameHeader_STRUCT_TINY ==
  <<FmtB, FmtB, FmtB, FmtS(2), FmtS(8), FmtS(3), FmtS(12)>>

\* The constructor with extra1 and devnum stored under each other's name.
FrameHeader_devnum_as_extra1(length, crc, doctype, extra1, devnum, docnum, extra2) ==
  [length |-> length, crc |-> crc, msgtype |-> FrameHeader_MSGTYPE,
   doctype |-> doctype, version |-> FrameHeader_VERSION, devnum |-> extra1,
   docnum |-> docnum, extra1 |-> devnum, extra2 |-> extra2]

\* FrameHeader(length, crc, doctype, extra1, devnum, docnum, extra2); the
\* attribute _docnum is the field docnum of the record.
FrameHeader(length, crc, doctype, extra1, devnum, docnum, extra2) ==
  [length |-> length, crc |-> crc, msgtype |-> FrameHeader_MSGTYPE,
   doctype |-> doctype, version |-> FrameHeader_VERSION, devnum |-> devnum,
   docnum |-> docnum, extra1 |-> extra1, extra2 |-> extra2]

\* FrameHeader.pack with devnum and extra1 written in the order of the
\* constructor's assignments.
FrameHeader_pack_devnum_first(self) ==
  StructPack(FrameHeader_STRUCT,
             <<self.length, self.crc, FrameHeader_MSGTYPE, self.doctype,
               self.version, self.devnum, self.extra1, self.docnum, self.extra2>>)

\* FrameHeader.pack: the class constant MSGTYPE is written, not self.msgtype.
FrameHeader_pack(self) ==
  StructPack(FrameHeader_STRUCT,
             <<self.length, self.crc, FrameHeader_MSGTYPE, self.doctype,
               self.version, self.extra1, self.devnum, self.docnum, self.extra2>>)

\* FrameHeader.unpack_from without the comparison of the version.
FrameHeader_unpack_from_any_version(data) ==
  IF Len(data) # StructSize(FrameHeader_STRUCT)
    THEN Raise("ValueError", "data size must be 32")
  ELSE LET pack == StructUnpack(FrameHeader_STRUCT, data).val
           rest == TupleFrom(pack, 5)
       IN IF pack[FrameHeader_MSGTYPE_ID + 1] # FrameHeader_MSGTYPE
            THEN Raise("ValueError", "invalid message type")
          ELSE Ok(FrameHeader(pack[1], pack[2], pack[4],
                              rest[1], rest[2], rest[3], rest[4]))

\* FrameHeader.unpack_from.  The tuple pack is indexed from 0 in the source.
FrameHeader_unpack_from(data) ==
  IF Len(data) # StructSize(FrameHeader_STRUCT)
    THEN Raise("ValueError", "data size must be 32")
  ELSE LET pack == StructUnpack(FrameHeader_STRUCT, data).val
           rest == TupleFrom(pack, 5)
       IN IF pack[FrameHeader_MSGTYPE_ID + 1] # FrameHeader_MSGTYPE
            THEN Raise("ValueError", "invalid message type")
          ELSE IF pack[FrameHeader_VERSION_ID + 1] # FrameHeader_VERSION
            THEN Raise("ValueError", "invalid protocol version")
          ELSE Ok(FrameHeader(pack[1], pack[2], pack[4],
                              rest[1], rest[2], rest[3], rest[4]))

\* FrameHeader.unpack_from_raw with the indices of the 32-byte tuple.
FrameHeader_unpack_from_raw_wide_ids(data) ==
  IF Len(data) # StructSize(FrameHeader_STRUCT_TINY)
    THEN Raise("ValueError", "data size must be 28")
  ELSE LET pack == StructUnpack(FrameHeader_STRUCT_TINY, data).val
           rest == TupleFrom(pack, 3)
       IN IF pack[FrameHeader_MSGTYPE_ID + 1] # FrameHeader_MSGTYPE
            THEN Raise("ValueError", "invalid message type")
          ELSE IF pack[FrameHeader_VERSION_ID + 1] # FrameHeader_VERSION
            THEN Raise("ValueError", "invalid protocol version")
          ELSE Ok(FrameHeader(0, 0, pack[2], rest[1], rest[2], rest[3], rest[4]))

\* FrameHeader.unpack_from_raw: the header without length and crc.
FrameHeader_unpack_from_raw(data) ==
  IF Len(data) # StructSize(FrameHeader_STRUCT_TINY)
    THEN Raise("ValueError", "data size must be 28")
  ELSE LET pack == StructUnpack(FrameHeader_STRUCT_TINY, data).val
           rest == TupleFrom(pack, 3)
       IN IF pack[FrameHeader_MSGTYPE_ID - 2 + 1] # FrameHeader_MSGTYPE
            THEN Raise("ValueError", "invalid message type")
          ELSE IF pack[FrameHeader_VERSION_ID - 2 + 1] # FrameHeader_VERSION
            THEN Raise("ValueError", "invalid protocol version")
          ELSE Ok(FrameHeader(0, 0, pack[2], rest[1], rest[2], rest[3], rest[4]))

\* FrameHeader.docnum: struct.unpack('>I', b'\0' + self._docnum)[0], the
\* big-endian number of the three bytes; struct.error for any other size.
FrameHeader_docnum(self) ==
  IF Len(self.docnum) # 3 THEN Raise("struct.error", 0)
  ELSE Ok(self.docnum[1] * 65536 + self.docnum[2] * 256 + self.docnum[3])

\* FrameHeader.recalculate_crc over the whole packed header, the crc field
\* included.
FrameHeader_recalculate_crc_whole(self, body) ==
  LET pack == FrameHeader_pack(self)
  IN IF ~pack.ok THEN pack
     ELSE Ok([self EXCEPT !.crc = CrcCcittFalse(pack.val \o body)])

\* FrameHeader.recalculate_crc with the register started from the stored
\* crc.
FrameHeader_recalculate_crc_from_stored(self, body) ==
  LET pack == FrameHeader_pack(self)
  IN IF ~pack.ok THEN pack
     ELSE Ok([self EXCEPT !.crc = CrcUpdate(self.crc,
                                            Slice(pack.val, 0, 2)
                                            \o SliceFrom(pack.val, 4)
                                            \o body)])

\* FrameHeader.recalculate_crc(body): the header after the call.
FrameHeader_recalculate_crc(self, body) ==
  LET pack == FrameHeader_pack(self)
  IN IF ~pack.ok THEN pack
     ELSE Ok([self EXCEPT !.crc = CrcCcittFalse(Slice(pack.val, 0, 2)
                                                \o SliceFrom(pack.val, 4)
                                                \o body)])

(***************************************************************************)
(* The frame headers and bodies the caller draws                           *)
(***************************************************************************)
\* The longest body beside the body of the test handed to recalculate_crc.
MaxBody == 2

\* extra1, devnum, docnum and extra2 of the header of the tests, 25 bytes.
TestFrameTail ==
  <<16, 9, 153, 153, 7, 137, 18, 52, 86, 127, 0, 0, 1,
    0, 35, 9, 130, 196, 0, 0, 1, 0, 2, 1, 7>>

\* The body of test_update_crc, 273 bytes.
TestFrameBody ==
  <<1, 0, 3, 1, 17, 4, 16, 0, 57, 57, 57, 57, 48, 55, 56, 57,
    49, 50, 51, 52, 53, 54, 55, 32, 13, 4, 20, 0, 49, 50, 48, 48,
    48, 48, 49, 51, 48, 48, 48, 48, 32, 32, 32, 32, 32, 32, 32, 32,
    250, 3, 12, 0, 49, 49, 50, 50, 51, 51, 52, 52, 53, 53, 54, 54,
    16, 4, 4, 0, 1, 0, 0, 0, 244, 3, 4, 0, 40, 84, 14, 87,
    53, 4, 6, 0, 33, 4, 28, 107, 129, 164, 233, 3, 1, 0, 0, 234,
    3, 1, 0, 0, 32, 4, 1, 0, 0, 38, 4, 1, 0, 1, 24, 4,
    9, 0, 142, 142, 142, 32, 34, 140, 140, 140, 34, 33, 4, 1, 0, 0,
    34, 4, 1, 0, 0, 241, 3, 38, 0, 140, 174, 225, 170, 162, 160, 44,
    32, 135, 165, 171, 165, 173, 235, 169, 32, 175, 224, 174, 225, 175, 165, 170,
    226, 44, 32, 164, 46, 54, 54, 32, 170, 174, 224, 175, 46, 32, 50, 22,
    4, 8, 0, 142, 148, 132, 45, 226, 165, 225, 226, 37, 4, 10, 0, 119,
    119, 119, 46, 111, 102, 100, 46, 114, 117, 36, 4, 12, 0, 119, 119, 119,
    46, 110, 97, 108, 111, 103, 46, 114, 117, 25, 4, 6, 0, 49, 49, 49,
    50, 51, 52, 253, 3, 18, 0, 145, 136, 145, 46, 32, 128, 132, 140, 136,
    141, 136, 145, 146, 144, 128, 146, 142, 144, 245, 3, 10, 0, 48, 54, 50,
    48, 48, 48, 48, 48, 48, 49, 129, 6, 115, 252, 163, 75, 40, 114, 0,
    0>>

\* The buffers handed to FrameHeader.unpack_from: 32 bytes with the length,
\* crc, msgtype, doctype and version bytes varied over right and wrong
\* values and two tails, and buffers of other sizes.
GenFrameBuffers ==
  LET whole == {len \o crc \o <<msgtype, doctype, version>> \o tail :
                  len \in {<<49, 1>>, <<255, 255>>},
                  crc \in {<<3, 236>>, <<0, 0>>},
                  msgtype \in {165, 164, 0},
                  doctype \in {1, 7},
                  version \in {1, 0, 2},
                  tail \in {TestFrameTail, Zeros(25)}}
      test == <<49, 1, 3, 236, 165, 1, 1>> \o TestFrameTail
  IN whole \cup {<<>>, SubSeq(test, 1, 31), test \o <<0>>, SliceFrom(test, 4)}

\* The header objects recalculate_crc is called on: built by the constructor
\* with every field in the range of its place in the format.
GenFrameHeaders ==
  {FrameHeader(length, crc, doctype, SubSeq(tail, 1, 2), SubSeq(tail, 3, 10),
               SubSeq(tail, 11, 13), SubSeq(tail, 14, 25)) :
     length \in {305, 0, 65535},
     crc \in {0, 60419, 65535},
     doctype \in {0, 1, 7, 255},
     tail \in {TestFrameTail, Zeros(25)}}

\* The bodies handed to recalculate_crc.
GenFrameBodies == SeqsUpTo(DataBytes, MaxBody) \cup {TestFrameBody}

\* FrameHeader.unpack_from(data).
FrameUnpackFrom ==
  /\ pc = "idle"
  /\ \E data \in GenFrameBuffers :
       /\ wire' = Ok(data)
       /\ out' = FrameHeader_unpack_from(data)
  /\ op' = "FrameHeader.unpack_from"
  /\ pc' = "unpacked"
  /\ UNCHANGED <<obj, index, arg>>

\* header.pack() on the header unpack_from returned.
FramePack ==
  /\ pc = "unpacked"
  /\ op = "FrameHeader.unpack_from"
  /\ out.ok
  /\ obj' = out.val
  /\ out' = FrameHeader_pack(out.val)
  /\ pc' = "done"
  /\ UNCHANGED <<op, index, arg, wire>>

\* header.recalculate_crc(body): obj is the header before the call, out the
\* header after it.
FrameRecalculateCrc ==
  /\ pc = "idle"
  /\ \E self \in GenFrameHeaders, body \in GenFrameBodies :
       /\ obj' = self
       /\ arg' = PyBytes(body)
       /\ out' = FrameHeader_recalculate_crc(self, body)
  /\ op' = "FrameHeader.recalculate_crc"
  /\ pc' = "done"
  /\ UNCHANGED <<index, wire>>

\* header.pack() on a header built by the constructor.
FramePackConstructed ==
  /\ pc = "idle"
  /\ \E self \in GenFrameHeaders :
       /\ obj' = self
       /\ wire' = FrameHeader_pack(self)
  /\ op' = "FrameHeader.pack"
  /\ pc' = "packed"
  /\ UNCHANGED <<index, arg, out>>

\* FrameHeader.unpack_from on the bytes pack returned.
FrameUnpackPacked ==
  /\ pc = "packed"
  /\ op = "FrameHeader.pack"
  /\ wire.ok
  /\ out' = FrameHeader_unpack_from(wire.val)
  /\ pc' = "done"
  /\ UNCHANGED <<op, obj, index, arg, wire>>

\* header.recalculate_crc(body) a second time with the same body: obj is the
\* header the first call left, out the header after the second call.
FrameRecalculateCrcAgain ==
  /\ pc = "done"
  /\ op = "FrameHeader.recalculate_crc"
  /\ out.ok
  /\ obj' = out.val
  /\ out' = FrameHeader_recalculate_crc(out.val, arg.v)
  /\ op' = "FrameHeader.recalculate_crc twice"
  /\ UNCHANGED <<pc, index, arg, wire>>

\* FrameHeader.unpack_from_raw(raw) on a buffer without its first four
\* bytes, and on the buffer as it is: wire is the buffer, arg is raw.
FrameUnpackFromRaw ==
  /\ pc = "idle"
  /\ \E data \in GenFrameBuffers :
       \E raw \in {SliceFrom(data, 4), data} :
          /\ wire' = Ok(data)
          /\ arg' = PyBytes(raw)
          /\ out' = FrameHeader_unpack_from_raw(raw)
  /\ op' = "FrameHeader.unpack_from_raw"
  /\ pc' = "done"
  /\ UNCHANGED <<obj, index>>

\* The caller is done with a frame header.
FrameReturn ==
  /\ pc \in {"unpacked", "packed", "done"}
  /\ op \in {"FrameHeader.unpack_from", "FrameHeader.recalculate_crc",
             "FrameHeader.pack",
             "FrameHeader.recalculate_crc twice",
             "FrameHeader.unpack_from_raw"}
  /\ pc' = "idle"
  /\ op' = "none"
  /\ obj' = None
  /\ index' = "none"
  /\ arg' = None
  /\ wire' = NoResult
  /\ out' = NoResult

NextFrame ==
  \/ FrameUnpackFrom
  \/ FramePack
  \/ FrameRecalculateCrc
  \/ FrameRecalculateCrcAgain
  \/ FramePackConstructed
  \/ FrameUnpackPacked
  \/ FrameUnpackFromRaw
  \/ FrameReturn

SpecFrame == Init /\ [][NextFrame]_vars

(***************************************************************************)
(* SessionHeader.  An object is the record of its attributes; MAGIC, a     *)
(* field of four bytes, is the digits of a Python int.                     *)
(***************************************************************************)
SessionHeader_MAGIC_ID == 0
SessionHeader_PVERS_ID == 1
SessionHeader_PVERA_ID == 2

\* STRUCT = struct.Struct('<IHH16sHHH').
SessionHeader_STRUCT == <<FmtI, FmtH, FmtH, FmtS(16), FmtH, FmtH, FmtH>>

\* MAGIC, = struct.unpack('<I', bytearray.fromhex('2a08410a')).
SessionHeader_MAGIC ==
  StructUnpack(<<FmtI>>, <<42, 8, 65, 10>>).val[1]

\* PVERS, = struct.unpack('<H', bytearray.fromhex('81a2')).
SessionHeader_PVERS ==
  StructUnpack(<<FmtH>>, <<129, 162>>).val[1]

\* PVERA: the numbers of bytearray.fromhex('0001') and of
\* bytearray.fromhex('0002') read with '<H'.
SessionHeader_PVERA ==
  {StructUnpack(<<FmtH>>, <<0, 1>>).val[1], StructUnpack(<<FmtH>>, <<0, 2>>).val[1]}

\* SessionHeader(pva, fs_id, length, flags, crc).
SessionHeader(pva, fs_id, length, flags, crc) ==
  [pva |-> pva, fs_id |-> fs_id, length |-> length, flags |-> flags,
   crc |-> crc]

\* SessionHeader.pack writing the pva of the object as the version of the
\* application protocol.
SessionHeader_pack_own_pva(self) ==
  StructPack(SessionHeader_STRUCT,
             <<SessionHeader_MAGIC, SessionHeader_PVERS, self.pva,
               self.fs_id, self.length, self.flags, self.crc>>)

\* SessionHeader.pack: the third field is the number of
\* bytearray.fromhex('0001'), whatever self.pva holds.
SessionHeader_pack(self) ==
  StructPack(SessionHeader_STRUCT,
             <<SessionHeader_MAGIC, SessionHeader_PVERS,
               StructUnpack(<<FmtH>>, <<0, 1>>).val[1],
               self.fs_id, self.length, self.flags, self.crc>>)

\* SessionHeader.unpack_from with one message for every rejected field.
SessionHeader_unpack_from_one_message(data) ==
  IF Len(data) # StructSize(SessionHeader_STRUCT)
    THEN Raise("ValueError", "data size must be 30")
  ELSE LET pack == StructUnpack(SessionHeader_STRUCT, data).val
           rest == TupleFrom(pack, SessionHeader_PVERA_ID + 1)
       IN IF \/ pack[SessionHeader_MAGIC_ID + 1] # SessionHeader_MAGIC
             \/ pack[SessionHeader_PVERS_ID + 1] # SessionHeader_PVERS
             \/ pack[SessionHeader_PVERA_ID + 1] \notin SessionHeader_PVERA
            THEN Raise("ValueError", "invalid protocol signature")
          ELSE Ok(SessionHeader(pack[SessionHeader_PVERA_ID + 1],
                                rest[1], rest[2], rest[3], rest[4]))

\* SessionHeader.unpack_from.  The tuple pack is indexed from 0 in the source.
SessionHeader_unpack_from(data) ==
  IF Len(data) # StructSize(SessionHeader_STRUCT)
    THEN Raise("ValueError", "data size must be 30")
  ELSE LET pack == StructUnpack(SessionHeader_STRUCT, data).val
           rest == TupleFrom(pack, SessionHeader_PVERA_ID + 1)
       IN IF pack[SessionHeader_MAGIC_ID + 1] # SessionHeader_MAGIC
            THEN Raise("ValueError", "invalid protocol signature")
          ELSE IF pack[SessionHeader_PVERS_ID + 1] # SessionHeader_PVERS
            THEN Raise("ValueError", "invalid session protocol version")
          ELSE IF pack[SessionHeader_PVERA_ID + 1] \notin SessionHeader_PVERA
            THEN Raise("ValueError", "invalid application protocol version")
          ELSE Ok(SessionHeader(pack[SessionHeader_PVERA_ID + 1],
                                rest[1], rest[2], rest[3], rest[4]))

(***************************************************************************)
(* The session header buffers the caller draws                             *)
(***************************************************************************)
\* fs_id of the header of the tests: b'9999078950      '.
TestSessionFsId ==
  <<57, 57, 57, 57, 48, 55, 56, 57, 53, 48, 32, 32, 32, 32, 32, 32>>

\* The buffers handed to SessionHeader.unpack_from: 30 bytes with the
\* magic, the two versions, fs_id, length, flags and crc varied over right
\* and wrong values, and buffers of other sizes.
GenSessionBuffers ==
  LET whole == {magic \o pvers \o pvera \o fs_id \o length \o flags \o crc :
                  magic \in {<<42, 8, 65, 10>>, <<42, 8, 65, 138>>,
                             <<10, 65, 8, 42>>, <<42, 8, 65, 0>>},
                  pvers \in {<<129, 162>>, <<162, 129>>, <<129, 0>>},
                  pvera \in {<<0, 1>>, <<0, 2>>, <<1, 0>>, <<0, 3>>, <<0, 0>>},
                  fs_id \in {TestSessionFsId, Zeros(16)},
                  length \in {<<49, 1>>, <<255, 255>>},
                  flags \in {<<20, 0>>},
                  crc \in {<<0, 0>>, <<52, 18>>}}
      test == <<42, 8, 65, 10, 129, 162, 0, 1>> \o TestSessionFsId
                \o <<49, 1, 20, 0, 0, 0>>
  IN whole \cup {<<>>, SubSeq(test, 1, 29), test \o <<0>>}

\* SessionHeader.unpack_from(data).
SessionUnpackFrom ==
  /\ pc = "idle"
  /\ \E data \in GenSessionBuffers :
       /\ wire' = Ok(data)
       /\ out' = SessionHeader_unpack_from(data)
  /\ op' = "SessionHeader.unpack_from"
  /\ pc' = "unpacked"
  /\ UNCHANGED <<obj, index, arg>>

\* header.pack() on the header unpack_from returned.
SessionPack ==
  /\ pc = "unpacked"
  /\ op = "SessionHeader.unpack_from"
  /\ out.ok
  /\ obj' = out.val
  /\ out' = SessionHeader_pack(out.val)
  /\ pc' = "done"
  /\ UNCHANGED <<op, index, arg, wire>>

\* The caller is done with a session header.
SessionReturn ==
  /\ pc \in {"unpacked", "done"}
  /\ op = "SessionHeader.unpack_from"
  /\ pc' = "idle"
  /\ op' = "none"
  /\ obj' = None
  /\ index' = "none"
  /\ arg' = None
  /\ wire' = NoResult
  /\ out' = NoResult

NextSession == SessionUnpackFrom \/ SessionPack \/ SessionReturn

SpecSession == Init /\ [][NextSession]_vars

(***************************************************************************)
(* example/mock_ofd.py: create_response                                    *)
(***************************************************************************)
RECURSIVE ModTen(_, _)
\* The remainder by ten of an int given by its digits, from the most
\* significant digit, carry the remainder so far.
ModTen(digits, carry) ==
  IF digits = <<>> THEN carry
  ELSE LET last == Len(digits)
       IN ModTen(SubSeq(digits, 1, last - 1), (carry * 256 + digits[last]) % 10)

RECURSIVE DecimalText(_)
\* The decimal digits of a positive int as characters, most significant
\* first (empty for 0).
DecimalText(digits) ==
  IF digits = <<>> THEN <<>>
  ELSE DecimalText(StripZeros(DivTen(digits, 0))) \o <<48 + ModTen(digits, 0)>>

\* str(value) for an int, a str and None.
PyStrOf(value) ==
  IF value.t = "int"
    THEN PyStr(IF value.v = <<>> THEN <<48>> ELSE DecimalText(value.v))
  ELSE IF value.t = "None" THEN PyStr(<<78, 111, 110, 101>>)
  ELSE value

\* d.get(name): the value under name, None when the key is absent.
DictGetOrNone(entries, name) ==
  IF DictHas(entries, name) THEN DictGet(entries, name) ELSE None

RECURSIVE Spaces(_)
\* ' ' * n.
Spaces(n) == IF n <= 0 THEN <<>> ELSE <<32>> \o Spaces(n - 1)

\* text.rjust(width): spaces on the left up to width characters.
Rjust(chars, width) == Spaces(width - Len(chars)) \o chars

\* DocCodes.OPERATOR_ACK: the document code of the operator's acknowledgment.
DocCodes_OPERATOR_ACK == 7

\* The message create_response builds, lines 48-58, for the body of the
\* incoming document and the value of int(time.time()).
create_response_message(doc_body, now) ==
  PyDict(<<
    [k |-> "operatorAck",
     v |-> PyDict(<<
       [k |-> "ofdInn", v |-> PyStr(<<55, 55, 48, 52, 51, 53, 56, 53, 49, 56>>)],
       [k |-> "fiscalDriveNumber", v |-> DictGetOrNone(doc_body.v, "fiscalDriveNumber")],
       [k |-> "fiscalDocumentNumber", v |-> DictGetOrNone(doc_body.v, "fiscalDocumentNumber")],
       [k |-> "dateTime", v |-> now],
       [k |-> "messageToFn", v |-> PyDict(<<[k |-> "ofdResponseCode", v |-> Num(0)]>>)]
     >>)]
  >>)

\* Lines 62-76 of create_response: the frame header around message_raw, its
\* crc, the container, the session header, the bytes returned.
create_response_wrap(message_raw, doc_body, in_session, in_header) ==
  LET docnum == String_pack(PyStrOf(DictGetOrNone(doc_body.v, "fiscalDocumentNumber")))
      extra2 == String_pack(PyStr(Rjust(<<48>>, 12)))
  IN IF ~docnum.ok THEN docnum
     ELSE IF ~extra2.ok THEN extra2
     ELSE LET out_header ==
                FrameHeader(StructSize(FrameHeader_STRUCT) + Len(message_raw), 0,
                            DocCodes_OPERATOR_ACK, in_header.extra1,
                            in_header.devnum, docnum.val, extra2.val)
              crced == FrameHeader_recalculate_crc(out_header, message_raw)
          IN IF ~crced.ok THEN crced
             ELSE LET container_raw == FrameHeader_pack(crced.val).val \o message_raw
                      out_session == SessionHeader(in_session.pva, in_session.fs_id,
                                                   Len(container_raw), 20, 0)
                      packed == SessionHeader_pack(out_session)
                  IN IF ~packed.ok THEN packed
                     ELSE Ok(packed.val \o container_raw)

\* create_response(doc, in_session, in_header) at the time now: the bytes
\* returned or the exception raised.  next(iter(doc)) raises StopIteration
\* on an empty doc; .get exists on a dict only.
create_response(doc, in_session, in_header, now) ==
  IF doc.v = <<>> THEN Raise("StopIteration", 0)
  ELSE LET doc_body == doc.v[1].v
       IN IF doc_body.t # "dict" THEN Raise("AttributeError", 0)
          ELSE LET message_raw ==
                     pack_json(create_response_message(doc_body, now), "name")
               IN IF ~message_raw.ok THEN message_raw
                  ELSE create_response_wrap(message_raw.val, doc_body,
                                            in_session, in_header)

(***************************************************************************)
(* The documents and headers create_response is called on                  *)
(***************************************************************************)
\* The fiscal document numbers of the incoming documents: 0, 5, 255, 256,
\* 0x010203 and 2^24 - 1.
GenDocNumbers ==
  {PyInt(<<>>), PyInt(<<5>>), PyInt(<<255>>), PyInt(<<0, 1>>),
   PyInt(<<3, 2, 1>>), PyInt(<<255, 255, 255>>)}

\* The incoming documents: one key, the name of the kind of document, over
\* a body with the number of the fiscal drive and of the document.
GenIncomingDocs ==
  {PyDict(<<[k |-> kind,
             v |-> PyDict(<<[k |-> "fiscalDriveNumber", v |-> PyStr(TestSessionFsId)],
                            [k |-> "fiscalDocumentNumber", v |-> n]>>)]>>) :
     kind \in {"receipt", "fiscalReport"}, n \in GenDocNumbers}

\* The session headers of incoming messages: the ones unpack_from returns.
GenInSessions ==
  {SessionHeader_unpack_from(data).val :
     data \in {b \in GenSessionBuffers : SessionHeader_unpack_from(b).ok}}

\* The frame headers of incoming messages: the ones unpack_from returns.
GenInHeaders ==
  {FrameHeader_unpack_from(data).val :
     data \in {b \in GenFrameBuffers : FrameHeader_unpack_from(b).ok}}

\* The values of int(time.time()): 1 and 1500000000.
GenTimes == {PyInt(<<1>>), PyInt(<<0, 47, 104, 89>>)}

\* response = create_response(doc, in_session=session, in_header=header).
\* obj holds the headers of the incoming message and the time, arg the
\* document, out the response or the exception.
CreateResponse ==
  /\ pc = "idle"
  /\ \E doc \in GenIncomingDocs, session \in GenInSessions,
        header \in GenInHeaders, now \in GenTimes :
       /\ arg' = doc
       /\ obj' = [session |-> session, header |-> header, time |-> now]
       /\ out' = create_response(doc, session, header, now)
  /\ op' = "create_response"
  /\ pc' = "done"
  /\ UNCHANGED <<index, wire>>

\* handle_connection is done with the response or the exception.
AckReturn ==
  /\ pc = "done"
  /\ op = "create_response"
  /\ pc' = "idle"
  /\ op' = "none"
  /\ obj' = None
  /\ index' = "none"
  /\ arg' = None
  /\ wire' = NoResult
  /\ out' = NoResult

NextAck == CreateResponse \/ AckReturn

SpecAck == Init /\ [][NextAck]_vars

(***************************************************************************)
(* example/mock_ofd.py: handle_connection.  A connection is the record of  *)
(* what the handler has done on its streams: events, in order, out of      *)
(* "read_session", "read_body", "decode", "write", "eof"; written, the     *)
(* bytes handed to wr.write; session, the session header once unpacked.    *)
(* wire holds the bytes rd still has to deliver before its end.            *)
(***************************************************************************)
\* unpack_container_message(message_raw, b'0')[0]: the document of a
\* message, the name of its document kind over the decoded body of the
\* first triple.
unpack_container_message(data) ==
  IF Len(Slice(data, 0, 4)) # 4 THEN Raise("struct.error", 0)
  ELSE LET ty == UnpackU16(SubSeq(data, 1, 2))
           length == UnpackU16(SubSeq(data, 3, 4))
           found == DOCUMENTS_getitem(ty)
       IN IF ~found.ok THEN found
          ELSE LET value == Unpack(found.val, Slice(data, 4, 4 + length))
               IN IF ~value.ok THEN value
                  ELSE Ok(PyDict(<<[k |-> found.val.name, v |-> value.val]>>))

\* The connection after an exception left the try block: finally calls
\* wr.write_eof(), nothing has been written.
ConnRaised(conn) == [conn EXCEPT !.events = Append(@, "eof")]

\* unpack_incoming_message from the return of the second readexactly:
\* container_raw is split at 32, the frame header unpacked, the message
\* decoded.
unpack_incoming_message_rest(container_raw) ==
  LET header_raw == Slice(container_raw, 0, StructSize(FrameHeader_STRUCT))
      message_raw == SliceFrom(container_raw, StructSize(FrameHeader_STRUCT))
      header == FrameHeader_unpack_from(header_raw)
      doc == unpack_container_message(message_raw)
  IN IF ~header.ok THEN header
     ELSE IF ~doc.ok THEN doc
     ELSE Ok([doc |-> doc.val, header |-> header.val])

\* handle_connection with wr.write_eof() after wr.write(response) inside the
\* try block instead of in finally: an exception ends the handler at once.
handle_connection_rest_no_finally(conn, incoming, now) ==
  IF ~incoming.ok
    THEN [conn |-> conn, exc |-> incoming, decoded |-> FALSE, doc |-> None]
  ELSE CHOOSE end \in
         {IF response.ok
            THEN [conn |-> [conn EXCEPT !.events = @ \o <<"decode", "write", "eof">>,
                                        !.written = response.val],
                  exc |-> Ok(<<>>), decoded |-> TRUE, doc |-> incoming.val.doc]
            ELSE [conn |-> [conn EXCEPT !.events = Append(@, "decode")],
                  exc |-> response, decoded |-> TRUE, doc |-> incoming.val.doc]
          : response \in {create_response(incoming.val.doc, conn.session,
                                          incoming.val.header, now)}}
         : TRUE

\* handle_connection from the return of unpack_incoming_message to its end:
\* create_response, wr.write(response), then wr.write_eof() of finally.
\* The result is the connection, the exception, if any, that ends the
\* handler, and the document when one was decoded.
handle_connection_rest(conn, incoming, now) ==
  IF ~incoming.ok
    THEN [conn |-> ConnRaised(conn), exc |-> incoming, decoded |-> FALSE, doc |-> None]
  ELSE CHOOSE end \in
         {IF response.ok
            THEN [conn |-> [conn EXCEPT !.events = @ \o <<"decode", "write", "eof">>,
                                        !.written = response.val],
                  exc |-> Ok(<<>>), decoded |-> TRUE, doc |-> incoming.val.doc]
            ELSE [conn |-> [conn EXCEPT !.events = @ \o <<"decode", "eof">>],
                  exc |-> response, decoded |-> TRUE, doc |-> incoming.val.doc]
          : response \in {create_response(incoming.val.doc, conn.session,
                                          incoming.val.header, now)}}
         : TRUE

(***************************************************************************)
(* The byte streams a peer sends                                           *)
(***************************************************************************)
\* The messages of the streams: a receipt and a fiscal report with the
\* numbers of the drive and of the document, a message with a tag outside
\* the registry, a message cut inside its head, no message.
GenMessages ==
  LET fields(n) == Triple(1041, 16, TestSessionFsId) \o Triple(1040, 4, n)
  IN {Triple(ty, 28, fields(n)) : ty \in {3, 1}, n \in {<<5, 0, 0, 0>>, <<3, 2, 1, 0>>}}
     \cup {Triple(1087, 0, <<>>), <<3, 0, 28>>, <<>>}

\* The streams: a session header, a frame header and a message, with the
\* magic, the a_version, the session length, the msgtype and the version
\* right or wrong, whole or cut short by the peer.
GenStreams ==
  LET frame(message, msgtype, version) ==
        [FrameHeader_pack(FrameHeader(32 + Len(message), 0, 1,
                                      SubSeq(TestFrameTail, 1, 2),
                                      SubSeq(TestFrameTail, 3, 10),
                                      SubSeq(TestFrameTail, 11, 13),
                                      SubSeq(TestFrameTail, 14, 25))).val
           EXCEPT ![5] = msgtype, ![7] = version] \o message
      session(magic, pva, length) ==
        [SessionHeader_pack(SessionHeader(256, TestSessionFsId, length, 20, 0)).val
           EXCEPT ![1] = magic, ![8] = pva]
      whole == {session(magic, pva, Len(container) + more) \o container :
                  magic \in {42, 43}, pva \in {1, 2, 3}, more \in {0, 5},
                  container \in {frame(message, msgtype, version) :
                                   message \in GenMessages,
                                   msgtype \in {165, 164},
                                   version \in {1, 2}}}
      short == {session(42, 1, length) \o SubSeq(frame(<<>>, 165, 1), 1, length) :
                  length \in {0, 10, 31}}
  IN whole \cup short \cup {SubSeq(s, 1, 20) : s \in short}

\* A peer connects: handle_connection starts and waits in the first
\* readexactly.
ConnAccept ==
  /\ pc = "idle"
  /\ \E stream \in GenStreams : wire' = Ok(stream)
  /\ op' = "handle_connection"
  /\ obj' = [events |-> <<>>, written |-> <<>>, session |-> None]
  /\ out' = NoResult
  /\ pc' = "read_session"
  /\ UNCHANGED <<index, arg>>

\* handle_connection from the first readexactly to the next wait or to its
\* end: readexactly(30) returns or raises IncompleteReadError at the end of
\* the stream, the session header is unpacked, an exception runs finally.
\* The result is the connection, the exception if any, the bytes left.
handle_connection_session(conn, stream) ==
  LET size == StructSize(SessionHeader_STRUCT)
  IN IF Len(stream) < size
       THEN [conn |-> ConnRaised(conn), exc |-> Raise("IncompleteReadError", 0),
             rest |-> stream]
       ELSE CHOOSE end \in
              {IF session.ok
                 THEN [conn |-> [conn EXCEPT !.events = Append(@, "read_session"),
                                             !.session = session.val],
                       exc |-> Ok(<<>>), rest |-> SliceFrom(stream, size)]
                 ELSE [conn |-> [conn EXCEPT !.events = @ \o <<"read_session", "eof">>],
                       exc |-> session, rest |-> SliceFrom(stream, size)]
               : session \in {SessionHeader_unpack_from(SubSeq(stream, 1, size))}}
              : TRUE

\* handle_connection from the second readexactly to its end:
\* readexactly(session.length) returns or raises IncompleteReadError, the
\* rest runs without another wait.
handle_connection_body(conn, stream, now) ==
  LET length == conn.session.length
  IN IF Len(stream) < length
       THEN [conn |-> ConnRaised(conn), exc |-> Raise("IncompleteReadError", 0),
             rest |-> stream, doc |-> None]
       ELSE CHOOSE end \in
              {[conn |-> rest.conn, exc |-> rest.exc,
                rest |-> SliceFrom(stream, length),
                doc |-> IF rest.decoded THEN rest.doc ELSE None]
               : rest \in {handle_connection_rest(
                              [conn EXCEPT !.events = Append(@, "read_body")],
                              incoming, now)
                            : incoming \in {unpack_incoming_message_rest(
                                              SubSeq(stream, 1, length))}}}
              : TRUE

\* The first readexactly of a connection ends.
ConnReadSession ==
  /\ pc = "read_session"
  /\ \E end \in {handle_connection_session(obj, wire.val)} :
       /\ obj' = end.conn
       /\ wire' = Ok(end.rest)
       /\ out' = IF end.exc.ok THEN NoResult ELSE end.exc
       /\ pc' = IF end.exc.ok THEN "read_body" ELSE "closed"
  /\ UNCHANGED <<op, index, arg>>

\* The second readexactly of a connection ends.
ConnReadBody ==
  /\ pc = "read_body"
  /\ \E now \in GenTimes :
       \E end \in {handle_connection_body(obj, wire.val, now)} :
          /\ obj' = end.conn
          /\ wire' = Ok(end.rest)
          /\ out' = end.exc
          /\ arg' = end.doc
  /\ pc' = "closed"
  /\ UNCHANGED <<op, index>>

\* The handler has ended; the server is ready for the next connection.
ConnReturn ==
  /\ pc = "closed"
  /\ op = "handle_connection"
  /\ pc' = "idle"
  /\ op' = "none"
  /\ obj' = None
  /\ index' = "none"
  /\ arg' = None
  /\ wire' = NoResult
  /\ out' = NoResult

NextConn == ConnAccept \/ ConnReadSession \/ ConnReadBody \/ ConnReturn

SpecConn == Init /\ [][NextConn]_vars

(***************************************************************************)
(* Lookups in the registry and in its two indices                          *)
(***************************************************************************)
\* The keys callers look up: every key of the index, and for the index by
\* name the key create_response packs its message under.
GenLookupKeys(docs) ==
  IF docs = "name" THEN DOCS_BY_NAME_KEYS \cup {"operatorAck"}
  ELSE DOCS_BY_DESC_KEYS

\* docs[key] for docs one of DOCS_BY_NAME, DOCS_BY_DESC.
DocsLookupCall ==
  /\ pc = "idle"
  /\ \E docs \in {"name", "desc"} :
       \E key \in GenLookupKeys(docs) :
          /\ index' = docs
          /\ arg' = [t |-> "key", v |-> key]
          /\ out' = DocsLookup(docs, key)
  /\ op' = "docs[key]"
  /\ pc' = "done"
  /\ UNCHANGED <<obj, wire>>

\* DOCUMENTS[ty] for the tags of the registry and a tag outside it.
DocumentsLookupCall ==
  /\ pc = "idle"
  /\ \E ty \in DOCUMENTS_KEYS \cup {1087} :
       /\ arg' = [t |-> "key", v |-> ty]
       /\ out' = DOCUMENTS_getitem(ty)
  /\ op' = "DOCUMENTS[ty]"
  /\ pc' = "done"
  /\ UNCHANGED <<obj, index, wire>>

NextRegistry == DocsLookupCall \/ DocumentsLookupCall \/ Return

SpecRegistry == Init /\ [][NextRegistry]_vars

\* Every call of the program.
Next ==
  \/ ScalarUnpack
  \/ ScalarPack
  \/ ScalarUnpackPacked
  \/ StlvUnpack
  \/ PackJson
  \/ UnpackPacked
  \/ Return
  \/ FrameUnpackFrom
  \/ FramePack
  \/ FrameRecalculateCrc
  \/ FrameReturn
  \/ SessionUnpackFrom
  \/ SessionPack
  \/ SessionReturn
  \/ CreateResponse
  \/ AckReturn
  \/ ConnAccept
  \/ ConnReadSession
  \/ ConnReadBody
  \/ ConnReturn
  \/ FrameRecalculateCrcAgain
  \/ FramePackConstructed
  \/ FrameUnpackPacked
  \/ FrameUnpackFromRaw
  \/ DocsLookupCall
  \/ DocumentsLookupCall

Spec == Init /\ [][Next]_vars

(***************************************************************************)
(* Properties of FrameHeader (specification SpecFrame)                     *)
(***************************************************************************)
\* The bits of a byte, most significant first.
BitsOf(byte) == [k \in 1..8 |-> (byte \div (2 ^ (8 - k))) % 2]

RECURSIVE CrcBits(_, _)
\* CRC-CCITT-FALSE as the shift register of its definition: per message bit,
\* shift the register left by one and xor 0x1021 into it when the bit shifted
\* out differs from the message bit.
CrcBits(reg, bits) ==
  IF bits = <<>> THEN reg
  ELSE LET out15 == reg \div 32768
           shifted == (reg * 2) % 65536
       IN CrcBits(IF out15 # Head(bits) THEN Xor(shifted, 4129) ELSE shifted,
                  Tail(bits))

RECURSIVE CrcBitSerial(_, _)
\* The shift register after the bits of the bytes of data, first byte first.
CrcBitSerial(reg, data) ==
  IF data = <<>> THEN reg
  ELSE IF Len(data) = 1 THEN CrcBits(reg, BitsOf(data[1]))
  ELSE LET half == Len(data) \div 2
       IN CHOOSE last \in {CrcBitSerial(mid, SubSeq(data, half + 1, Len(data)))
                             : mid \in {CrcBitSerial(reg, SubSeq(data, 1, half))}}
                 : TRUE

\* The bytes the claim names: the two length bytes of the packed header,
\* then msgtype, doctype, version, extra1, devnum, docnum, extra2.
CrcCoverage(self) ==
  <<self.length % 256, self.length \div 256, 165, self.doctype, self.version>>
  \o self.extra1 \o self.devnum \o self.docnum \o self.extra2

\* The header of test_update_crc.
TestFrameHeader ==
  FrameHeader(305, 0, 1, SubSeq(TestFrameTail, 1, 2), SubSeq(TestFrameTail, 3, 10),
              SubSeq(TestFrameTail, 11, 13), SubSeq(TestFrameTail, 14, 25))

\* C13: after h.recalculate_crc(b) the crc of h is the CRC-CCITT-FALSE of the
\* length bytes, the 28 bytes from msgtype through extra2 and b, no other
\* field has changed, and for the header and body of the test it is 60419.
C13_CrcOverLengthRestBody ==
  (pc = "done" /\ op = "FrameHeader.recalculate_crc") =>
     /\ out.ok
     /\ out.val.crc = CrcBitSerial(65535, CrcCoverage(obj) \o arg.v)
     /\ [out.val EXCEPT !.crc = obj.crc] = obj
     /\ (obj = TestFrameHeader /\ arg.v = TestFrameBody) => out.val.crc = 60419

\* C13 happens: the header of the test, crc 0 before the call, holds 60419
\* after recalculate_crc on the body of the test.
C13_Witness ==
  /\ pc = "done"
  /\ op = "FrameHeader.recalculate_crc"
  /\ obj = TestFrameHeader
  /\ arg.v = TestFrameBody
  /\ out.ok
  /\ out.val.crc = 60419

\* C14: for every 32-byte frame header buffer F (a buffer unpack_from
\* accepts as a frame header), unpack_from(F).pack() returns F.
C14_FrameRoundTrip ==
  (pc = "done" /\ op = "FrameHeader.unpack_from") =>
     (out.ok /\ out.val = wire.val)

\* C14 happens: a header with a non-zero crc and distinct bytes in every
\* field has been unpacked and packed back to the same 32 bytes.
C14_Witness ==
  /\ pc = "done"
  /\ op = "FrameHeader.unpack_from"
  /\ SliceFrom(wire.val, 7) = TestFrameTail
  /\ SubSeq(wire.val, 3, 4) = <<3, 236>>
  /\ out.val = wire.val

\* C15: unpack_from raises for every buffer whose length is not 32, whose
\* byte at offset 4 is not 0xA5 or whose byte at offset 6 is not 1; it
\* accepts every other buffer and returns length (offset 0, little-endian),
\* crc (2), doctype (5), extra1 (7..8), devnum (9..16), docnum (17..19) and
\* extra2 (20..31) as laid out.
C15_FrameUnpackStrict ==
  (pc = "unpacked" /\ op = "FrameHeader.unpack_from") =>
     LET F == wire.val
     IN IF Len(F) # 32 \/ F[5] # 165 \/ F[7] # 1
          THEN ~out.ok /\ out.val = <<>>
          ELSE /\ out.ok
               /\ out.val.length = F[1] + 256 * F[2]
               /\ out.val.crc = F[3] + 256 * F[4]
               /\ out.val.msgtype = 165
               /\ out.val.doctype = F[6]
               /\ out.val.version = 1
               /\ out.val.extra1 = SubSeq(F, 8, 9)
               /\ out.val.devnum = SubSeq(F, 10, 17)
               /\ out.val.docnum = SubSeq(F, 18, 20)
               /\ out.val.extra2 = SubSeq(F, 21, 32)

\* C15 happens: a 32-byte buffer with msgtype 0xA5 and a version other than
\* 1 has been rejected.
C15_Witness ==
  /\ pc = "unpacked"
  /\ op = "FrameHeader.unpack_from"
  /\ Len(wire.val) = 32
  /\ wire.val[5] = 165
  /\ wire.val[7] = 2
  /\ ~out.ok
  /\ out.info = "invalid protocol version"

\* The results of every way the class has to unpack the 32-byte header F:
\* unpack_from on F and unpack_from_raw on F without length and crc.
FrameUnpackResults(F) ==
  {FrameHeader_unpack_from(F), FrameHeader_unpack_from_raw(SliceFrom(F, 4))}

\* C16: a 32-byte header with version 1 and a msgtype other than 0xA5 is
\* rejected with bad-message-type by the strict unpack, and the class has a
\* permissive way to unpack it that accepts and returns it.
C16_PermissiveMsgtype ==
  (/\ pc = "unpacked"
   /\ op = "FrameHeader.unpack_from"
   /\ Len(wire.val) = 32
   /\ wire.val[7] = 1
   /\ wire.val[5] # 165) =>
     /\ ~out.ok /\ out.info = "invalid message type"
     /\ \E r \in FrameUnpackResults(wire.val) : r.ok
(***************************************************************************)
(* Properties of SessionHeader (specification SpecSession)                 *)
(***************************************************************************)
\* Whether the magic of a 30-byte buffer is 0x0A41082A (little-endian at
\* offset 0), its s_version 0xA281 (offset 4), its a_version 0x0100 or
\* 0x0200 (offset 6).
MagicRight(S) == SubSeq(S, 1, 4) = <<42, 8, 65, 10>>
SVersionRight(S) == S[5] + 256 * S[6] = 41601
AVersionRight(S) == S[7] + 256 * S[8] \in {256, 512}

\* C17: unpack_from accepts a buffer exactly when it has 30 bytes, the
\* magic 0x0A41082A, s_version 0xA281 and a_version 0x0100 or 0x0200; it
\* returns no header otherwise; and the error of a rejected 30-byte buffer
\* tells which check failed: bad magic, bad session version (magic right)
\* or bad application version (magic and session version right).
C17_SessionUnpackValidates ==
  (pc = "unpacked" /\ op = "SessionHeader.unpack_from") =>
     LET S == wire.val
         accepted == /\ Len(S) = 30
                     /\ MagicRight(S) /\ SVersionRight(S) /\ AVersionRight(S)
     IN /\ out.ok <=> accepted
        /\ ~out.ok => out.val = <<>> /\ out.err = "ValueError"
        /\ (~out.ok /\ Len(S) = 30) =>
             /\ out.info = "invalid protocol signature" <=> ~MagicRight(S)
             /\ out.info = "invalid session protocol version"
                  <=> (MagicRight(S) /\ ~SVersionRight(S))
             /\ out.info = "invalid application protocol version"
                  <=> (MagicRight(S) /\ SVersionRight(S) /\ ~AVersionRight(S))

\* C17 happens: a 30-byte buffer with the right magic and session version
\* and the a_version 0x0300 has been rejected as a bad application version.
C17_Witness ==
  /\ pc = "unpacked"
  /\ op = "SessionHeader.unpack_from"
  /\ Len(wire.val) = 30
  /\ MagicRight(wire.val)
  /\ SVersionRight(wire.val)
  /\ SubSeq(wire.val, 7, 8) = <<0, 3>>
  /\ ~out.ok
  /\ out.info = "invalid application protocol version"

\* C18: for a 30-byte buffer S that unpack_from accepts, unpack_from(S).pack()
\* returns S with the two bytes of a_version replaced by 00 01 (0x0100) and
\* every other byte as in S, s_version 0xA281 among them; the pva of the
\* unpacked object is the a_version S carried.
C18_SessionRoundTripRestamped ==
  (pc = "done" /\ op = "SessionHeader.unpack_from") =>
     LET S == wire.val
     IN /\ out.ok
        /\ out.val = SubSeq(S, 1, 6) \o <<0, 1>> \o SubSeq(S, 9, 30)
        /\ SubSeq(out.val, 5, 6) = <<129, 162>>
        /\ obj.pva = S[7] + 256 * S[8]

\* C18 happens: a buffer with a_version 0x0200 has been unpacked to an
\* object with pva 0x0200 and packed back with a_version 0x0100.
C18_Witness ==
  /\ pc = "done"
  /\ op = "SessionHeader.unpack_from"
  /\ SubSeq(wire.val, 7, 8) = <<0, 2>>
  /\ obj.pva = 512
  /\ out.ok
  /\ SubSeq(out.val, 7, 8) = <<0, 1>>
  /\ out.val # wire.val
(***************************************************************************)
(* Properties of create_response (specification SpecAck)                   *)
(***************************************************************************)
\* The fiscalDocumentNumber of the body of an incoming document.
IncomingDocNumber(doc) == DictGet(doc.v[1].v.v, "fiscalDocumentNumber")

\* The frame header of a response: the 32 bytes after the 30 bytes of the
\* session header.
ResponseFrame(R) == FrameHeader_unpack_from(SubSeq(R, 31, 62))

\* C19: create_response returns a response whose frame header has doctype
\* 7, the devnum and extra1 of the incoming header, the character '0'
\* padded with spaces to 12 bytes as extra2, and a docnum whose three bytes
\* read big-endian give the fiscalDocumentNumber of the incoming document.
C19_AckHeaderFields ==
  (pc = "done" /\ op = "create_response") =>
     /\ out.ok
     /\ ResponseFrame(out.val).ok
     /\ LET header == ResponseFrame(out.val).val
        IN /\ header.doctype = 7
           /\ header.devnum = obj.header.devnum
           /\ header.extra1 = obj.header.extra1
           /\ header.extra2 \in {Spaces(11) \o <<48>>, <<48>> \o Spaces(11)}
           /\ FrameHeader_docnum(header).ok
           /\ Digits(FrameHeader_docnum(header).val) = IncomingDocNumber(arg).v

ConnSteps == <<"read_session", "read_body", "decode", "write">>

DocCodeNames ==
  <<[ty |-> 1, name |-> "fiscalReport"], [ty |-> 2, name |-> "openShift"],
    [ty |-> 3, name |-> "receipt"], [ty |-> 4, name |-> "bso"],
    [ty |-> 5, name |-> "closeShift"], [ty |-> 6, name |-> "closeArchive"],
    [ty |-> 7, name |-> "operatorAck"],
    [ty |-> 11, name |-> "fiscalReportCorrection"],
    [ty |-> 21, name |-> "currentStateReport"],
    [ty |-> 31, name |-> "receiptCorrection"],
    [ty |-> 41, name |-> "bsoCorrection"]>>

\* C22: the registry holds each of the eleven document codes as an STLV
\* container under the name of the code, and the index by name answers
\* each of the eleven names with the entry of its tag.
C22_DocCodesByName ==
  (pc = "done") =>
     \A i \in 1..Len(DocCodeNames) :
        /\ (op = "DOCUMENTS[ty]" /\ arg.v = DocCodeNames[i].ty) =>
             (out.ok /\ out.val.kind = "STLV" /\ out.val.name = DocCodeNames[i].name)
        /\ (op = "docs[key]" /\ index = "name" /\ arg.v = DocCodeNames[i].name) =>
             (out.ok /\ out.val.kind = "STLV" /\ out.val.ty = DocCodeNames[i].ty)

\* The tags of the registry whose entry an index holds under key.
TagsKeyed(docs, key) ==
  {ty \in DOCUMENTS_KEYS : KeyIn(docs, DOCUMENTS(ty)) = key}

\* C23: a lookup in either index under a key of the index answers with
\* every tag of the registry that carries the key (the one tag of a
\* description; the one tag, or all the tags, of a name), every tag of the
\* registry is found under its own key, and the index by description has
\* as many entries as the registry has tags.
C23_IndicesTotal ==
  (pc = "done" /\ op = "docs[key]" /\ arg.v \in GenLookupKeys(index) \ {"operatorAck"}) =>
     /\ out.ok
     /\ TagsKeyed(index, arg.v) = {out.val.ty}
     /\ index = "desc" =>
          Cardinality(DOCS_BY_DESC_KEYS) = Cardinality(DOCUMENTS_KEYS)

(***************************************************************************)
(* Properties of pack_json on nested documents (specification SpecEncode)  *)
(***************************************************************************)
RECURSIVE ResolveThrough(_, _)
\* A document resolves through the index docs when every key of the
\* mapping, of every nested mapping and of every mapping in a list is a key
\* of docs.
ResolveThrough(value, docs) ==
  IF value.t = "dict"
    THEN \A i \in 1..Len(value.v) :
            /\ DocsLookup(docs, value.v[i].k).ok
            /\ ResolveThrough(value.v[i].v, docs)
  ELSE IF value.t = "list"
    THEN \A i \in 1..Len(value.v) : ResolveThrough(value.v[i], docs)
  ELSE TRUE

\* C24: pack_json(doc, docs=R) resolves the keys of every depth through R:
\* on a document all of whose keys, nested ones and those of list elements
\* included, are keys of R, no lookup of a key fails.
C24_NestedKeysSameIndex ==
  (op = "pack_json" /\ ResolveThrough(arg, index)) =>
     wire.err # "KeyError"

(***************************************************************************)
(* Properties of STLV.unpack on tags that share a name (SpecDecode)        *)
(***************************************************************************)
\* Whether a decoded document holds value: under some key, as the value of
\* the key or as an element of the list under it.
Retrievable(document, value) ==
  \E i \in 1..Len(document.v) :
     \/ document.v[i].v = value
     \/ document.v[i].v.t = "list"
        /\ \E j \in 1..Len(document.v[i].v.v) : document.v[i].v.v[j] = value

\* A body whose outer triples are the String 1066 and the container 1069,
\* both present in either order, each triple whole and decodable on its own.
HoldsBothMessages(data) ==
  LET triples == TopTriples(data)
  IN /\ ~HasOverrun(data)
     /\ {triples[i][1] : i \in 1..Len(triples)} = {1066, 1069}
     /\ \A i \in 1..Len(triples) :
           Unpack(DOCUMENTS(triples[i][1]), triples[i][2]).ok

\* C25: a container body that holds both tag 1066 and tag 1069, in either
\* order, decodes, and the value of every one of its triples is retrievable
\* from the decoded document.
C25_NoKeyCollision ==
  (/\ pc = "done"
   /\ op = "STLV.unpack"
   /\ Len(wire.val) <= obj.maxlen
   /\ HoldsBothMessages(wire.val)) =>
     /\ out.ok
     /\ \A i \in 1..Len(TopTriples(wire.val)) :
           LET triple == TopTriples(wire.val)[i]
           IN Retrievable(out.val, Unpack(DOCUMENTS(triple[1]), triple[2]).val)

(***************************************************************************)
(* Termination of STLV.unpack (specification SpecDecode)                   *)
(***************************************************************************)
RECURSIVE LoopVisits(_)
\* The values of data the while loop of STLV.unpack can be entered with on
\* a body, in this container and in the nested ones: the body, what remains
\* after each triple, and the same within the value of a nested container.
LoopVisits(data) ==
  {data}
  \cup (IF Len(data) < 4 THEN {}
        ELSE LoopVisits(AfterHead(data))
             \cup (IF HeadIsContainer(data) THEN LoopVisits(HeadValue(data))
                   ELSE {}))

\* C26: STLV.unpack ends on every body.  A body longer than the maxlen of
\* the container is rejected with ValueError whatever its triples are, and
\* so is the value of a nested container longer than that container's
\* maxlen; an iteration of the loop on fewer than four bytes ends the decode
\* with struct.error, any other iteration leaves at least four bytes fewer
\* to read, and a nested container is decoded from at least four bytes
\* fewer than its parent.
C26_UnpackTerminates ==
  (pc = "done" /\ op = "STLV.unpack") =>
     /\ out # NoResult
     /\ Len(wire.val) > obj.maxlen => out = Raise("ValueError", 0)
     /\ \A data \in LoopVisits(wire.val) :
           IF Len(data) = 0 THEN STLV_unpack_loop(data, <<>>) = Ok(PyDict(<<>>))
           ELSE IF Len(data) < 4
             THEN STLV_unpack_loop(data, <<>>) = Raise("struct.error", 0)
           ELSE /\ Len(AfterHead(data)) <= Len(data) - 4
                /\ HeadIsContainer(data) =>
                     /\ Len(HeadValue(data)) <= Len(data) - 4
                     /\ Len(HeadValue(data)) > DOCUMENTS(HeadTag(data)).maxlen =>
                          STLV_unpack_loop(data, <<>>) = Raise("ValueError", 0)

\* C26 happens: a body longer than the maxlen of its container, whose first
\* triple carries an unknown tag, has been rejected for its length.
C26_Witness ==
  /\ pc = "done"
  /\ op = "STLV.unpack"
  /\ Len(wire.val) > obj.maxlen
  /\ HeadTag(wire.val) \in UnknownTags
  /\ out.err = "ValueError"

(***************************************************************************)
(* Properties of FrameHeader.unpack_from_raw (specification SpecFrame)     *)
(***************************************************************************)
\* C27: unpack_from_raw rejects every input whose length is not 28; on the
\* last 28 bytes of a 32-byte buffer it succeeds exactly when unpack_from
\* succeeds on the buffer, and the header it returns is the one unpack_from
\* returns with length and crc set to 0.
C27_RawAgreesWithFull ==
  (pc = "done" /\ op = "FrameHeader.unpack_from_raw") =>
     /\ Len(arg.v) # 28 => (~out.ok /\ out.err = "ValueError")
     /\ (Len(wire.val) = 32 /\ arg.v = SliceFrom(wire.val, 4)) =>
          LET full == FrameHeader_unpack_from(wire.val)
          IN /\ out.ok = full.ok
             /\ out.ok => out.val = [full.val EXCEPT !.length = 0, !.crc = 0]

\* C27 happens: unpack_from_raw has returned a header for the last 28 bytes
\* of a buffer whose length and crc fields are not zero.
C27_Witness ==
  /\ pc = "done"
  /\ op = "FrameHeader.unpack_from_raw"
  /\ Len(wire.val) = 32
  /\ arg.v = SliceFrom(wire.val, 4)
  /\ SubSeq(wire.val, 1, 4) = <<49, 1, 3, 236>>
  /\ out.ok
  /\ out.val.length = 0
  /\ out.val.doctype = 7

(***************************************************************************)
(* The values VLN.unpack and FVLN.unpack return (specification SpecScalar) *)
(***************************************************************************)
\* The signed value of a byte.
SignedByte(b) == IF b >= 128 THEN b - 256 ELSE b

\* C28: on every input of at most maxlen bytes FVLN.unpack returns the
\* decimal whose position is the signed first byte and whose mantissa is the
\* little-endian number of the next eight bytes of the input zero-padded to
\* nine bytes, and VLN.unpack returns the little-endian number of the input
\* zero-padded to eight bytes.
C28_DecodedValue ==
  (pc = "done" /\ op = "unpack" /\ Len(wire.val) <= obj.maxlen) =>
     /\ obj.kind = "FVLN" =>
          LET padded == wire.val \o Zeros(9 - Len(wire.val))
          IN /\ out.ok
             /\ out.val = PyFloat(SignedByte(padded[1]),
                                  StripZeros(SubSeq(padded, 2, 9)))
     /\ obj.kind = "VLN" =>
          /\ out.ok
          /\ out.val = PyInt(StripZeros(wire.val \o Zeros(8 - Len(wire.val))))

(***************************************************************************)
(* recalculate_crc and the stored crc (specification SpecFrame)            *)
(***************************************************************************)
\* The headers that differ from self in the stored crc at most.
SameButCrc(self) ==
  {h \in GenFrameHeaders : [h EXCEPT !.crc = self.crc] = self}

\* C29: the header recalculate_crc(body) leaves is the same whatever crc
\* the header held before the call, it differs from the header before the
\* call in crc at most, and a second call with the same body leaves the
\* header as the first call left it.
C29_CrcIgnoresStoredCrc ==
  /\ (pc = "done" /\ op = "FrameHeader.recalculate_crc") =>
        /\ out.ok
        /\ \A other \in SameButCrc(obj) :
              FrameHeader_recalculate_crc(other, arg.v) = out
        /\ \A field \in DOMAIN obj \ {"crc"} : out.val[field] = obj[field]
  /\ (pc = "done" /\ op = "FrameHeader.recalculate_crc twice") =>
        out = Ok(obj)

\* C29 happens: the second call with the body of the test has left the
\* header of the test as the first call left it, crc 60419, and the first
\* call started from a header holding another crc.
C29_Witness ==
  /\ pc = "done"
  /\ op = "FrameHeader.recalculate_crc twice"
  /\ arg.v = TestFrameBody
  /\ obj = [TestFrameHeader EXCEPT !.crc = 60419]
  /\ out = Ok(obj)
  /\ Cardinality(SameButCrc(obj)) > 1

(***************************************************************************)
(* Constructed headers pack to valid frames (specification SpecFrame)      *)
(***************************************************************************)
\* C30: pack() of a header built by the constructor from fields in the
\* range of their places returns 32 bytes with msgtype 0xA5 at offset 4 and
\* version 1 at offset 6, and unpack_from of those bytes returns a header
\* equal to the original in every field.
C30_ConstructedPacksValid ==
  (op = "FrameHeader.pack" /\ pc \in {"packed", "done"}) =>
     /\ wire.ok
     /\ Len(wire.val) = 32
     /\ wire.val[5] = 165
     /\ wire.val[7] = 1
     /\ pc = "done" =>
          /\ out.ok
          /\ \A field \in DOMAIN obj : out.val[field] = obj[field]
          /\ DOMAIN out.val = DOMAIN obj

\* C30 happens: a header built with the largest length and crc, doctype 255
\* and the fields of the test has been packed and unpacked again.
C30_Witness ==
  /\ pc = "done"
  /\ op = "FrameHeader.pack"
  /\ obj.length = 65535
  /\ obj.crc = 65535
  /\ obj.doctype = 255
  /\ obj.devnum = SubSeq(TestFrameTail, 3, 10)
  /\ out = Ok(obj)
====
